---------------------------- MODULE Spec2Model ----------------------------
(***************************************************************************)
(* A model of the raster grid that the Landlab tutorial notebooks build    *)
(* and drive: the element topology drawn in the introduction notebook,     *)
(* the node boundary statuses and the link activity derived from them, and *)
(* the field store that binds named arrays to the grid's elements.         *)
(*                                                                         *)
(* Node, link, patch, cell, face and corner ids are the 0-based ids of the *)
(* notebook's reference diagram.  Arrays are numpy arrays: objects on a    *)
(* heap, addressed by reference, indexed from 0.                           *)
(***************************************************************************)
EXTENDS Integers, Sequences, FiniteSets, TLC

VARIABLES
    shape,           \* <<rows, columns>> of the grid (RasterModelGrid((4,5), 10.0))
    status_at_node,  \* node id -> boundary status code
    active_links,    \* the link ids the grid currently reports as active
    heap,            \* array reference -> numpy array (a function 0..n-1 -> value)
    fields,          \* <<element kind, field name>> -> array reference held by the store
    ever,            \* every <<kind, name>> registered on this grid so far
    z,               \* the driver's own variable z: an array reference, or None
    bound,           \* the <<kind, name>> keys the driver's z is bound to
    pristine,        \* the fields made by add_zeros that nothing has written to yet
    last,            \* the call made last and how it ended
    pc,              \* the statement the driver loop is at; "idle" outside a loop
    i,               \* the loop variable of for i in range(nt)
    nt,              \* the driver's nt: the number of loops to run
    dt,              \* the driver's dt: the timestep
    elapsed_time,    \* the driver's elapsed_time, in seconds
    outlet,          \* the driver's outlet_id: a node id, or None
    hydrograph_time,      \* the driver's list hydrograph_time
    discharge_at_outlet,  \* the driver's list discharge_at_outlet
    done,            \* how often each statement of the loop body has completed
    stamp,           \* field name -> the statement and loop that wrote the field last
    saw,             \* statement -> the stamps of the fields when it ran last
    time,            \* the loop variable of for time in t_sec, in seconds
    of_delta_t,      \* of.delta_t: the time step the driver keeps on the component
    of_rainfall_intensity,  \* of.rainfall_intensity, in units of 1e-12 metres a second
    ran_with         \* the <<elapsed time, intensity>> each step of the current loop ran with

gridVars == <<status_at_node, active_links>>
storeVars == <<heap, fields, ever, z, bound, pristine>>
loopVars == <<i, nt, dt, time>>
hydrographVars == <<elapsed_time, outlet, hydrograph_time, discharge_at_outlet>>
ofVars == <<of_delta_t, of_rainfall_intensity>>
ghostVars == <<done, stamp, saw, ran_with>>
driverVars == <<pc, loopVars, hydrographVars, ofVars, ghostVars>>

vars == <<shape, gridVars, storeVars, last, driverVars>>

-----------------------------------------------------------------------------
(* Bounds of the model *)

MaxRows == 4
MaxCols == 5
MaxArrays == 2

(* The most entries the hydrograph lists get in the loops with an adaptive *)
(* time step, where a step need not advance the time: the loop test is not *)
(* made again once they hold that many.                                    *)
MaxSteps == 5

(* Node status codes, as the notebook lists them *)
CORE_NODE == 0
FIXED_VALUE_BOUNDARY == 1
FIXED_GRADIENT_BOUNDARY == 2
TRACK_CELL_BOUNDARY == 3
CLOSED_BOUNDARY == 4

(* nodata_value=-9999 of set_watershed_boundary_condition *)
NODATA == -9999

(* The entry of links_at_node where a node has no link, and the value of a  *)
(* variable that holds no array yet.                                       *)
None == -1

-----------------------------------------------------------------------------
(* Topology of a raster with R rows and C columns of nodes *)

number_of_node_rows == shape[1]
number_of_node_columns == shape[2]

(* Node ids run along x first, then y: node (row, col) is row*C + col. *)
NodeAt(row, col) == row * number_of_node_columns + col

Nodes ==
    { NodeAt(row, col) : row \in 0 .. number_of_node_rows - 1,
                         col \in 0 .. number_of_node_columns - 1 }

RowOf(n) == n \div number_of_node_columns
ColOf(n) == n % number_of_node_columns

node_x(n) == ColOf(n)
node_y(n) == RowOf(n)

(* Links of node row `row`: first the horizontal links of the row, pointing *)
(* east, then the vertical links that leave the row, pointing north.        *)
LinksPerRow == 2 * number_of_node_columns - 1

(* The ids of the link that leaves node (row, col) eastward and of the one  *)
(* that leaves it northward.                                               *)
HorizontalLinkAt(row, col) == row * LinksPerRow + col
VerticalLinkAt(row, col) == row * LinksPerRow + (number_of_node_columns - 1) + col

HorizontalLinks ==
    { [id   |-> HorizontalLinkAt(row, col),
       tail |-> NodeAt(row, col),
       head |-> NodeAt(row, col + 1),
       dir  |-> "E"] : row \in 0 .. number_of_node_rows - 1,
                       col \in 0 .. number_of_node_columns - 2 }

(* A faulty range of the vertical links: those that leave the last but one  *)
(* row are missing.                                                        *)
VerticalLinks_short ==
    { [id   |-> VerticalLinkAt(row, col),
       tail |-> NodeAt(row, col),
       head |-> NodeAt(row + 1, col),
       dir  |-> "N"] : row \in 0 .. number_of_node_rows - 3,
                       col \in 0 .. number_of_node_columns - 1 }

VerticalLinks ==
    { [id   |-> VerticalLinkAt(row, col),
       tail |-> NodeAt(row, col),
       head |-> NodeAt(row + 1, col),
       dir  |-> "N"] : row \in 0 .. number_of_node_rows - 2,
                       col \in 0 .. number_of_node_columns - 1 }

Links == HorizontalLinks \cup VerticalLinks

LinkIds == { l.id : l \in Links }

Link(id) == CHOOSE l \in Links : l.id = id

node_at_link_tail(id) == Link(id).tail
node_at_link_head(id) == Link(id).head

(* The link that leaves node n in direction d, and the one that arrives at *)
(* n travelling in direction d; None where the grid has no such link.       *)
LinkLeaving(n, d) ==
    LET ls == { l \in Links : l.tail = n /\ l.dir = d } IN
    IF ls = {} THEN None ELSE (CHOOSE l \in ls : TRUE).id

LinkArriving(n, d) ==
    LET ls == { l \in Links : l.head = n /\ l.dir = d } IN
    IF ls = {} THEN None ELSE (CHOOSE l \in ls : TRUE).id

(* rmg.links_at_node[n]: the links to the east, north, west and south of n. *)
links_at_node(n) ==
    << LinkLeaving(n, "E"), LinkLeaving(n, "N"),
       LinkArriving(n, "E"), LinkArriving(n, "N") >>

(* The link directions with the sign convention reversed. *)
link_dirs_at_node_reversed(n) ==
    LET ls == links_at_node(n) IN
    [ k \in 1 .. 4 |->
        IF ls[k] = None THEN 0
        ELSE IF node_at_link_head(ls[k]) = n THEN -1 ELSE 1 ]

(* rmg.link_dirs_at_node[n], slot for slot with links_at_node[n]: 1 for a  *)
(* link that points toward n, -1 for one that points away from n, 0 where  *)
(* there is no link.                                                       *)
link_dirs_at_node(n) ==
    LET ls == links_at_node(n) IN
    [ k \in 1 .. 4 |->
        IF ls[k] = None THEN 0
        ELSE IF node_at_link_head(ls[k]) = n THEN 1 ELSE -1 ]

(* Patches: one per 2x2 block of nodes, bounded by the block's four links. *)
Patches ==
    { [id    |-> row * (number_of_node_columns - 1) + col,
       links |-> { HorizontalLinkAt(row, col),
                   VerticalLinkAt(row, col),
                   HorizontalLinkAt(row + 1, col),
                   VerticalLinkAt(row, col + 1) }] :
         row \in 0 .. number_of_node_rows - 2,
         col \in 0 .. number_of_node_columns - 2 }

(* A faulty cell layout: a cell around every node, the perimeter included. *)
CellNodes_all == Nodes

(* Cells: one around every node that is not in the first or last row or    *)
(* column of the grid.                                                     *)
CellNodes ==
    { n \in Nodes : /\ RowOf(n) \in 1 .. number_of_node_rows - 2
                    /\ ColOf(n) \in 1 .. number_of_node_columns - 2 }

Cells ==
    { [id   |-> (RowOf(n) - 1) * (number_of_node_columns - 2) + (ColOf(n) - 1),
       node |-> n] : n \in CellNodes }

(* Faces: one across every link that a cell's edge crosses, numbered in the *)
(* order of the links they cross.                                          *)
FaceLinks ==
    LET cn == CellNodes IN
    { l.id : l \in { k \in Links : k.tail \in cn \/ k.head \in cn } }

Faces ==
    LET fl == FaceLinks IN
    { [id   |-> Cardinality({ k \in fl : k < l }),
       link |-> l] : l \in fl }

(* A faulty corner layout: a corner only at the centre of a cell. *)
Corners_interior ==
    { [id |-> c.id, patch |-> c.id] : c \in Cells }

(* Corners: one at the centre of every patch. *)
Corners == { [id |-> p.id, patch |-> p.id] : p \in Patches }

number_of_nodes == Cardinality(Nodes)
number_of_links == Cardinality(Links)
number_of_patches == Cardinality(Patches)
number_of_cells == Cardinality(Cells)
number_of_faces == Cardinality(Faces)
number_of_corners == Cardinality(Corners)

(* The number of elements of each kind a field may be attached to. *)
Kinds == { "node", "link", "patch", "corner", "face", "cell" }

ElementCount(kind) ==
    CASE kind = "node"   -> number_of_nodes
      [] kind = "link"   -> number_of_links
      [] kind = "patch"  -> number_of_patches
      [] kind = "corner" -> number_of_corners
      [] kind = "face"   -> number_of_faces
      [] kind = "cell"   -> number_of_cells

-----------------------------------------------------------------------------
(* Boundary statuses and link activity *)

(* A faulty default: the four corner nodes of the grid are left core.        *)
DefaultStatus_corners_core ==
    [ n \in Nodes |->
        IF (RowOf(n) \in { 0, number_of_node_rows - 1 })
              # (ColOf(n) \in { 0, number_of_node_columns - 1 })
        THEN FIXED_VALUE_BOUNDARY
        ELSE CORE_NODE ]

(* The status array of a new grid: the perimeter is fixed-value boundary,   *)
(* every other node is core.                                               *)
DefaultStatus ==
    [ n \in Nodes |->
        IF \/ RowOf(n) \in { 0, number_of_node_rows - 1 }
           \/ ColOf(n) \in { 0, number_of_node_columns - 1 }
        THEN FIXED_VALUE_BOUNDARY
        ELSE CORE_NODE ]

core_nodes == { n \in Nodes : status_at_node[n] = CORE_NODE }
number_of_core_nodes == Cardinality(core_nodes)

(* The active links under a status array: a core node at one end and no     *)
(* closed node at the other; a link between a core node and a              *)
(* fixed-gradient node is a fixed link, not an active one.                 *)
ActiveLinksOf(status) ==
    LET Active(tail, head) ==
            /\ \/ status[tail] = CORE_NODE /\ status[head] # CLOSED_BOUNDARY
               \/ status[head] = CORE_NODE /\ status[tail] # CLOSED_BOUNDARY
            /\ ~ \/ status[tail] = FIXED_GRADIENT_BOUNDARY /\ status[head] = CORE_NODE
                 \/ status[head] = FIXED_GRADIENT_BOUNDARY /\ status[tail] = CORE_NODE
        rows == 0 .. number_of_node_rows - 1
        cols == 0 .. number_of_node_columns - 1
    IN  { HorizontalLinkAt(at[1], at[2]) : at \in
            { x \in rows \X (0 .. number_of_node_columns - 2) :
                Active(NodeAt(x[1], x[2]), NodeAt(x[1], x[2] + 1)) } }
        \cup
        { VerticalLinkAt(at[1], at[2]) : at \in
            { x \in (0 .. number_of_node_rows - 2) \X cols :
                Active(NodeAt(x[1], x[2]), NodeAt(x[1] + 1, x[2])) } }

(* Faulty variant of update_links: the link activity is left as it was.     *)
update_links_stale(old_active, status) == old_active

(* The recomputation that ends every call that changes node statuses.       *)
update_links(old_active, status) == ActiveLinksOf(status)

(* The node ranges of the four grid edges as the edge setters use them: the *)
(* bottom and top rows in full, the left and right columns without their   *)
(* two corner nodes.                                                       *)
bottom_edge == { n \in Nodes : n < number_of_node_columns }
top_edge == { n \in Nodes : n >= (number_of_node_rows - 1) * number_of_node_columns }
(* A faulty range of the right edge: the whole last column, the two corner *)
(* nodes of the grid included.                                             *)
right_edge_with_corners ==
    { n \in Nodes : ColOf(n) = number_of_node_columns - 1 }

right_edge ==
    LET N == number_of_nodes IN
    { n \in Nodes : /\ ColOf(n) = number_of_node_columns - 1
                    /\ n >= 2 * number_of_node_columns - 1
                    /\ n < N - 1 }
left_edge ==
    LET N == number_of_nodes IN
    { n \in Nodes : /\ ColOf(n) = 0
                    /\ n >= number_of_node_columns
                    /\ n < N - number_of_node_columns }

(* A faulty reading of the edge selection: the four flags are taken in the *)
(* order top, right, bottom, left.                                         *)
EdgeNodes_clockwise(right, top, left, bottom) ==
    (IF left THEN bottom_edge ELSE {}) \cup (IF top THEN right_edge ELSE {})
    \cup (IF right THEN top_edge ELSE {}) \cup (IF bottom THEN left_edge ELSE {})

EdgeNodes(right, top, left, bottom) ==
    (IF bottom THEN bottom_edge ELSE {}) \cup (IF right THEN right_edge ELSE {})
    \cup (IF top THEN top_edge ELSE {}) \cup (IF left THEN left_edge ELSE {})

SetStatus(status, nodes, code) ==
    [ n \in DOMAIN status |-> IF n \in nodes THEN code ELSE status[n] ]

(* The record of a call: what was called, how it ended ("ok" or the error  *)
(* raised), the field key or the edge selection it named, the id or array  *)
(* reference it took or returned, and the row it returned.                 *)
Call(op, err) == [op |-> op, err |-> err, key |-> << >>, ref |-> None, res |-> << >>]

(* A faulty closing of edges: a node of the edges that is already closed is *)
(* opened again as a fixed-value boundary.                                 *)
set_closed_boundaries_at_grid_edges_toggle(right, top, left, bottom) ==
    LET nodes == EdgeNodes(right, top, left, bottom)
        status == [ n \in DOMAIN status_at_node |->
                      IF n \notin nodes THEN status_at_node[n]
                      ELSE IF status_at_node[n] = CLOSED_BOUNDARY
                           THEN FIXED_VALUE_BOUNDARY
                           ELSE CLOSED_BOUNDARY ] IN
    /\ status_at_node' = status
    /\ active_links' = update_links(active_links, status)
    /\ last' = [Call("set_closed_boundaries_at_grid_edges", "ok")
                    EXCEPT !.key = <<right, top, left, bottom>>]
    /\ UNCHANGED <<driverVars, shape, storeVars>>

(* mg.set_closed_boundaries_at_grid_edges(right, top, left, bottom) *)
set_closed_boundaries_at_grid_edges(right, top, left, bottom) ==
    LET status == SetStatus(status_at_node, EdgeNodes(right, top, left, bottom),
                            CLOSED_BOUNDARY) IN
    /\ status_at_node' = status
    /\ active_links' = update_links(active_links, status)
    /\ last' = [Call("set_closed_boundaries_at_grid_edges", "ok")
                    EXCEPT !.key = <<right, top, left, bottom>>]
    /\ UNCHANGED <<driverVars, shape, storeVars>>

(* mg.set_fixed_value_boundaries_at_grid_edges(right, top, left, bottom) *)
set_fixed_value_boundaries_at_grid_edges(right, top, left, bottom) ==
    LET status == SetStatus(status_at_node, EdgeNodes(right, top, left, bottom),
                            FIXED_VALUE_BOUNDARY) IN
    /\ status_at_node' = status
    /\ active_links' = update_links(active_links, status)
    /\ last' = [Call("set_fixed_value_boundaries_at_grid_edges", "ok")
                    EXCEPT !.key = <<right, top, left, bottom>>]
    /\ UNCHANGED <<driverVars, shape, storeVars>>

-----------------------------------------------------------------------------
(* Arrays and the field store *)

Size(a) == Cardinality(DOMAIN a)

Refs == DOMAIN heap

Registered == DOMAIN fields

Elevation == <<"node", "topographic__elevation">>

(* np.zeros(n) and an array of n arbitrary positive values *)
Zeros(n) == [ k \in 0 .. n - 1 |-> 0 ]
Ramp(n) == [ k \in 0 .. n - 1 |-> k + 1 ]

(* The element assigned by a[13] = 100: index 13, or the last index of a    *)
(* shorter array.                                                          *)
WriteIndex(a) == IF Size(a) > 13 THEN 13 ELSE Size(a) - 1

Assign(a, k, v) == [ a EXCEPT ![k] = v ]

(* The length check of the store: the array must reshape to the elements   *)
(* of the kind, one entry or one row of entries per element.               *)
SizeMatches(kind, a) == Size(a) % ElementCount(kind) = 0

NewRef == Cardinality(Refs) + 1

Extend(f, k, v) == [ x \in DOMAIN f \cup { k } |-> IF x = k THEN v ELSE f[x] ]

(* The fields that hold the array r. *)
FieldsOf(r) == { key \in Registered : fields[key] = r }

(* A faulty add_field: the store keeps a copy of the caller's array.         *)
add_field_copy(kind, name) ==
    LET key == <<kind, name>> IN
    /\ z # None
    /\ IF key \in Registered
       THEN /\ last' = [Call("add_field", "FieldError") EXCEPT !.key = key, !.ref = z]
            /\ UNCHANGED storeVars
       ELSE IF ~ SizeMatches(kind, heap[z])
       THEN /\ last' = [Call("add_field", "ValueError") EXCEPT !.key = key, !.ref = z]
            /\ UNCHANGED storeVars
       ELSE /\ NewRef <= MaxArrays
            /\ heap' = Extend(heap, NewRef, heap[z])
            /\ fields' = Extend(fields, key, NewRef)
            /\ ever' = ever \cup { key }
            /\ bound' = bound \cup { key }
            /\ last' = [Call("add_field", "ok") EXCEPT !.key = key, !.ref = z]
            /\ UNCHANGED <<z, pristine>>
    /\ UNCHANGED <<driverVars, shape, gridVars>>

(* A faulty add_field: the length of the array is not checked.              *)
add_field_unchecked(kind, name) ==
    LET key == <<kind, name>> IN
    /\ z # None
    /\ IF key \in Registered
       THEN /\ last' = [Call("add_field", "FieldError") EXCEPT !.key = key, !.ref = z]
            /\ UNCHANGED storeVars
       ELSE /\ fields' = Extend(fields, key, z)
            /\ ever' = ever \cup { key }
            /\ bound' = bound \cup { key }
            /\ last' = [Call("add_field", "ok") EXCEPT !.key = key, !.ref = z]
            /\ UNCHANGED <<heap, z, pristine>>
    /\ UNCHANGED <<driverVars, shape, gridVars>>

(* add_field(kind, name, z): the store refuses a name it already holds      *)
(* (noclobber) and an array of the wrong length; otherwise it keeps the    *)
(* caller's array itself, not a copy.                                      *)
add_field(kind, name) ==
    LET key == <<kind, name>> IN
    /\ z # None
    /\ IF key \in Registered
       THEN /\ last' = [Call("add_field", "FieldError") EXCEPT !.key = key, !.ref = z]
            /\ UNCHANGED storeVars
       ELSE IF ~ SizeMatches(kind, heap[z])
       THEN /\ last' = [Call("add_field", "ValueError") EXCEPT !.key = key, !.ref = z]
            /\ UNCHANGED storeVars
       ELSE /\ fields' = Extend(fields, key, z)
            /\ ever' = ever \cup { key }
            /\ bound' = bound \cup { key }
            /\ last' = [Call("add_field", "ok") EXCEPT !.key = key, !.ref = z]
            /\ UNCHANGED <<heap, z, pristine>>
    /\ UNCHANGED <<driverVars, shape, gridVars>>

(* z = mg.add_zeros(kind, name) *)
add_zeros(kind, name) ==
    LET key == <<kind, name>> IN
    /\ IF key \in Registered
       THEN /\ last' = [Call("add_zeros", "FieldError") EXCEPT !.key = key]
            /\ UNCHANGED storeVars
       ELSE /\ NewRef <= MaxArrays
            /\ heap' = Extend(heap, NewRef, Zeros(ElementCount(kind)))
            /\ fields' = Extend(fields, key, NewRef)
            /\ ever' = ever \cup { key }
            /\ z' = NewRef
            /\ bound' = { key }
            /\ pristine' = pristine \cup { key }
            /\ last' = [Call("add_zeros", "ok") EXCEPT !.key = key, !.ref = NewRef]
    /\ UNCHANGED <<driverVars, shape, gridVars>>

(* z = 10*np.random.rand(n): a new array of the driver's own *)
new_array(n) ==
    /\ NewRef <= MaxArrays
    /\ heap' = Extend(heap, NewRef, Ramp(n))
    /\ z' = NewRef
    /\ bound' = {}
    /\ last' = [Call("new_array", "ok") EXCEPT !.ref = NewRef]
    /\ UNCHANGED <<driverVars, shape, gridVars, fields, ever, pristine>>

(* The references a call reports to have replaced: the one the store held  *)
(* under the key, if it held one.                                          *)
Held(key) == IF key \in Registered THEN <<fields[key]>> ELSE << >>

(* A faulty assignment: a name the store already holds keeps its array, and *)
(* the values of the array given are copied into it.                       *)
setitem_in_place(kind, name) ==
    LET key == <<kind, name>>
        arr == Ramp(number_of_nodes)
        ref == IF key \in Registered THEN fields[key] ELSE NewRef IN
    /\ IF ~ SizeMatches(kind, arr)
       THEN /\ last' = [Call("setitem", "ValueError") EXCEPT !.key = key]
            /\ UNCHANGED storeVars
       ELSE /\ ref <= MaxArrays
            /\ heap' = Extend(heap, ref, arr)
            /\ fields' = Extend(fields, key, ref)
            /\ ever' = ever \cup { key }
            /\ bound' = bound \ { key }
            /\ last' = [Call("setitem", "ok") EXCEPT !.key = key, !.ref = ref,
                                                     !.res = Held(key)]
            /\ pristine' = pristine \ { key }
            /\ UNCHANGED z
    /\ UNCHANGED <<driverVars, shape, gridVars>>

(* A faulty assignment: the name is released before the length is checked,  *)
(* and stays released when the check fails.                                *)
setitem_release_first(kind, name) ==
    LET key == <<kind, name>>
        arr == Ramp(number_of_nodes) IN
    /\ IF ~ SizeMatches(kind, arr)
       THEN /\ fields' = [ k \in Registered \ { key } |-> fields[k] ]
            /\ bound' = bound \ { key }
            /\ pristine' = pristine \ { key }
            /\ last' = [Call("setitem", "ValueError") EXCEPT !.key = key]
            /\ UNCHANGED <<heap, ever, z>>
       ELSE /\ NewRef <= MaxArrays
            /\ heap' = Extend(heap, NewRef, arr)
            /\ fields' = Extend(fields, key, NewRef)
            /\ ever' = ever \cup { key }
            /\ bound' = bound \ { key }
            /\ last' = [Call("setitem", "ok") EXCEPT !.key = key, !.ref = NewRef,
                                                     !.res = Held(key)]
            /\ pristine' = pristine \ { key }
            /\ UNCHANGED z
    /\ UNCHANGED <<driverVars, shape, gridVars>>

(* mg.at_node[name] = of.discharge_mapper(...) (and its likes for the other *)
(* kinds): the store checks the length of the new array the mapper returns *)
(* and then holds it, in place of any array it held under the name.        *)
setitem(kind, name) ==
    LET key == <<kind, name>>
        arr == Ramp(number_of_nodes) IN
    /\ IF ~ SizeMatches(kind, arr)
       THEN /\ last' = [Call("setitem", "ValueError") EXCEPT !.key = key]
            /\ UNCHANGED storeVars
       ELSE /\ NewRef <= MaxArrays
            /\ heap' = Extend(heap, NewRef, arr)
            /\ fields' = Extend(fields, key, NewRef)
            /\ ever' = ever \cup { key }
            /\ bound' = bound \ { key }
            /\ last' = [Call("setitem", "ok") EXCEPT !.key = key, !.ref = NewRef,
                                                     !.res = Held(key)]
            /\ pristine' = pristine \ { key }
            /\ UNCHANGED z
    /\ UNCHANGED <<driverVars, shape, gridVars>>

(* z[13] = 100 *)
write_caller ==
    /\ z # None
    /\ Size(heap[z]) > 0
    /\ heap' = [heap EXCEPT ![z] = Assign(@, WriteIndex(@), 100)]
    /\ pristine' = pristine \ FieldsOf(z)
    /\ last' = [Call("write_caller", "ok") EXCEPT !.ref = z]
    /\ UNCHANGED <<driverVars, shape, gridVars, fields, ever, z, bound>>

(* mg.at_node[name][13] = 100 *)
write_store(kind, name) ==
    LET key == <<kind, name>> IN
    /\ IF key \notin Registered
       THEN /\ last' = [Call("write_store", "FieldError") EXCEPT !.key = key]
            /\ UNCHANGED storeVars
       ELSE /\ Size(heap[fields[key]]) > 0
            /\ heap' = [heap EXCEPT ![fields[key]] = Assign(@, WriteIndex(@), 100)]
            /\ pristine' = pristine \ FieldsOf(fields[key])
            /\ last' = [Call("write_store", "ok") EXCEPT !.key = key, !.ref = fields[key]]
            /\ UNCHANGED <<fields, ever, z, bound>>
    /\ UNCHANGED <<driverVars, shape, gridVars>>

(* mg.at_node[name]: the array the store holds under the name *)
getitem(kind, name) ==
    LET key == <<kind, name>> IN
    /\ last' = IF key \in Registered
               THEN [Call("getitem", "ok") EXCEPT !.key = key, !.ref = fields[key]]
               ELSE [Call("getitem", "FieldError") EXCEPT !.key = key]
    /\ UNCHANGED <<driverVars, shape, gridVars, storeVars>>

(* The elevations a component step may leave at the core nodes. *)
StepValues == { 2 }

(* lin_diffuse.run_one_step(dt): nothing is returned; the elevation field   *)
(* of the grid is updated in place at the core nodes.                      *)
Stepped(v) ==
    /\ Elevation \in Registered
    /\ heap' = [heap EXCEPT ![fields[Elevation]] =
                    [ k \in DOMAIN @ |-> IF k \in core_nodes THEN v ELSE @[k] ]]
    /\ pristine' = IF core_nodes = {} THEN pristine
                                      ELSE pristine \ FieldsOf(fields[Elevation])
    /\ last' = [Call("run_one_step", "ok") EXCEPT !.key = Elevation, !.ref = fields[Elevation]]
    /\ UNCHANGED <<shape, gridVars, fields, ever, z, bound>>

(* The step called on its own, outside a driver loop. *)
run_one_step(v) ==
    /\ Stepped(v)
    /\ UNCHANGED driverVars

-----------------------------------------------------------------------------
(* Watershed boundary conditions on an elevation array with nodata values *)

nodata_nodes(a) == { n \in DOMAIN a : a[n] = NODATA }

(* node_has_boundary_neighbor: one of the eight neighbours of n is missing *)
(* or is not a core node.                                                  *)
node_has_boundary_neighbor(status, n) ==
    \E dr \in { -1, 0, 1 }, dc \in { -1, 0, 1 } :
        /\ <<dr, dc>> # <<0, 0>>
        /\ LET row == RowOf(n) + dr
               col == ColOf(n) + dc IN
           \/ row \notin 0 .. number_of_node_rows - 1
           \/ col \notin 0 .. number_of_node_columns - 1
           \/ status[NodeAt(row, col)] # CORE_NODE

(* The status array once the four edges and the nodata nodes are closed. *)
ClosedRing(status, a) ==
    SetStatus(SetStatus(status, EdgeNodes(TRUE, TRUE, TRUE, TRUE), CLOSED_BOUNDARY),
              nodata_nodes(a), CLOSED_BOUNDARY)

(* The search for the outlet: the data values are tried from the lowest up  *)
(* until one is held by a node next to the boundary; the nodes found are   *)
(* all the nodes next to the boundary that hold that value.                *)
OutletsFound(status, a) ==
    LET near == { n \in Nodes \ nodata_nodes(a) : node_has_boundary_neighbor(status, n) }
        lowest == { n \in near : \A m \in near : a[n] <= a[m] } IN
    lowest

(* mg.set_watershed_boundary_condition(z, nodata_value=-9999) *)
set_watershed_boundary_condition ==
    /\ z # None
    /\ Size(heap[z]) = number_of_nodes
    /\ LET a == heap[z]
           closed == ClosedRing(status_at_node, a)
           found == OutletsFound(closed, a) IN
       IF Cardinality(found) = 1
       THEN LET status == SetStatus(closed, found, FIXED_VALUE_BOUNDARY) IN
            /\ status_at_node' = status
            /\ active_links' = update_links(active_links, status)
            /\ last' = [Call("set_watershed_boundary_condition", "ok")
                           EXCEPT !.ref = CHOOSE n \in found : TRUE]
       ELSE /\ status_at_node' = closed
            /\ active_links' = update_links(active_links, closed)
            /\ last' = Call("set_watershed_boundary_condition", "ValueError")
    /\ UNCHANGED <<driverVars, shape, storeVars>>

(* outlet_id = mg.core_nodes[np.argmin(z[mg.core_nodes])] *)
LowestCoreNode(a) ==
    LET core == core_nodes IN
    { n \in core : \A m \in core : a[n] < a[m] \/ (a[n] = a[m] /\ n <= m) }

(* The outlet ids tried: the lowest core node, as the notebooks pass it,    *)
(* the first closed node and the first node of the grid.                   *)
OutletChoices(a) ==
    LET closed == { n \in Nodes : status_at_node[n] = CLOSED_BOUNDARY } IN
    LowestCoreNode(a) \cup { n \in closed : \A m \in closed : n <= m } \cup { 0 }

(* A faulty designation: a node that is closed is refused as the outlet,    *)
(* and the grid is left as it was.                                         *)
set_watershed_boundary_condition_outlet_id_refusing(outlet_id) ==
    /\ z # None
    /\ Size(heap[z]) = number_of_nodes
    /\ IF status_at_node[outlet_id] = CLOSED_BOUNDARY
       THEN /\ last' = [Call("set_watershed_boundary_condition_outlet_id",
                             "NoValidOutletError")
                           EXCEPT !.ref = outlet_id,
                                  !.res = <<status_at_node[outlet_id]>>]
            /\ UNCHANGED gridVars
       ELSE LET status == SetStatus(ClosedRing(status_at_node, heap[z]), { outlet_id },
                                    FIXED_VALUE_BOUNDARY) IN
            /\ status_at_node' = status
            /\ active_links' = update_links(active_links, status)
            /\ last' = [Call("set_watershed_boundary_condition_outlet_id", "ok")
                           EXCEPT !.ref = outlet_id,
                                  !.res = <<status_at_node[outlet_id]>>]
    /\ UNCHANGED <<driverVars, shape, storeVars>>

(* A faulty designation: the grid edges are not closed again, only the     *)
(* nodata nodes are.                                                       *)
set_watershed_boundary_condition_outlet_id_keeping_edges(outlet_id) ==
    /\ z # None
    /\ Size(heap[z]) = number_of_nodes
    /\ LET status == SetStatus(SetStatus(status_at_node, nodata_nodes(heap[z]),
                                         CLOSED_BOUNDARY),
                               { outlet_id }, FIXED_VALUE_BOUNDARY) IN
       /\ status_at_node' = status
       /\ active_links' = update_links(active_links, status)
       /\ last' = [Call("set_watershed_boundary_condition_outlet_id", "ok")
                      EXCEPT !.ref = outlet_id,
                             !.res = <<status_at_node[outlet_id]>>]
    /\ UNCHANGED <<driverVars, shape, storeVars>>

(* mg.set_watershed_boundary_condition_outlet_id(outlet_id, z): the four    *)
(* edges and the nodata nodes are closed, then the outlet node is made a   *)
(* fixed-value boundary, whatever its status; no outlet is refused.  The   *)
(* call record keeps the node and the status it had.                       *)
set_watershed_boundary_condition_outlet_id(outlet_id) ==
    /\ z # None
    /\ Size(heap[z]) = number_of_nodes
    /\ LET status == SetStatus(ClosedRing(status_at_node, heap[z]), { outlet_id },
                               FIXED_VALUE_BOUNDARY) IN
       /\ status_at_node' = status
       /\ active_links' = update_links(active_links, status)
       /\ last' = [Call("set_watershed_boundary_condition_outlet_id", "ok")
                      EXCEPT !.ref = outlet_id,
                             !.res = <<status_at_node[outlet_id]>>]
    /\ UNCHANGED <<driverVars, shape, storeVars>>

-----------------------------------------------------------------------------
(* Construction *)

(* The statements of the driver loops, and the fields the components of    *)
(* the three-component model exchange.                                     *)
Statements ==
    { "lin_diffuse.run_one_step", "fa.run_one_step", "fsc.run_one_step", "uplift",
      "kw.run_one_step", "append", "elapsed_time += dt", "plot",
      "of.calc_time_step", "of.rainfall_intensity", "of.overland_flow",
      "discharge_mapper", "elapsed_time += of.delta_t" }

ExchangedFields == { "topographic__elevation", "drainage_area" }

NoneDone == [ s \in Statements |-> 0 ]
NoStamp == [ f \in ExchangedFields |-> <<"initial", None>> ]
NothingSeen == [ s \in Statements |-> NoStamp ]

(* No driver loop has been entered. *)
NoDriver ==
    /\ pc = [loop |-> "idle", at |-> "idle"]
    /\ i = None
    /\ time = None
    /\ nt = 0
    /\ dt = 0
    /\ elapsed_time = 0
    /\ outlet = None
    /\ hydrograph_time = << >>
    /\ discharge_at_outlet = << >>
    /\ done = NoneDone
    /\ stamp = NoStamp
    /\ saw = NothingSeen
    /\ of_delta_t = None
    /\ of_rainfall_intensity = None
    /\ ran_with = << >>

Shapes == (2 .. MaxRows) \X (2 .. MaxCols)

(* The elevation rasters read from file: all data, a ring of nodata around  *)
(* the data, and one level everywhere.                                     *)
DemKinds == { "open", "ring", "flat" }

(* The rasters of a watershed: the above, and a ring of nodata around the   *)
(* data that is open at one node of the bottom edge, the lowest of the     *)
(* raster.                                                                 *)
WatershedDems == DemKinds \cup { "notch" }

Perimeter(R, C, n) ==
    \/ n \div C \in { 0, R - 1 }
    \/ n % C \in { 0, C - 1 }

Dem(kind, R, C) ==
    [ n \in 0 .. R * C - 1 |->
        CASE kind = "open" -> n + 1
          [] kind = "ring" -> IF Perimeter(R, C, n) THEN NODATA ELSE R * C - n
          [] kind = "flat" -> 5
          [] kind = "notch" -> IF n = 1 THEN 0
                               ELSE IF Perimeter(R, C, n) THEN NODATA ELSE R * C - n ]

(* rmg = RasterModelGrid((R, C), 10.0): a grid with no fields *)
RasterModelGrid(s) ==
    /\ shape = s
    /\ status_at_node = DefaultStatus
    /\ active_links = ActiveLinksOf(status_at_node)
    /\ heap = << >>
    /\ fields = << >>
    /\ ever = {}
    /\ z = None
    /\ bound = {}
    /\ pristine = {}
    /\ last = Call("RasterModelGrid", "ok")
    /\ NoDriver

(* mg, z = read_esri_ascii(file, name='topographic__elevation'): a grid of  *)
(* the raster's shape with the raster attached as its elevation field      *)
esri_ascii_grid(s, kind) ==
    /\ shape = s
    /\ status_at_node = DefaultStatus
    /\ active_links = ActiveLinksOf(status_at_node)
    /\ heap = <<Dem(kind, s[1], s[2])>>
    /\ fields = [ k \in { Elevation } |-> 1 ]
    /\ ever = { Elevation }
    /\ z = 1
    /\ bound = { Elevation }
    /\ pristine = {}
    /\ last = Call("read_esri_ascii", "ok")

(* The raster read outside a driver. *)
read_esri_ascii(s, kind) ==
    /\ esri_ascii_grid(s, kind)
    /\ NoDriver

(* The edge selections passed to the edge setters, as <<right, top, left,   *)
(* bottom>>: the two of the notebook, and each edge on its own.            *)
EdgeArgs ==
    { <<TRUE, FALSE, TRUE, FALSE>>, <<FALSE, TRUE, FALSE, TRUE>>,
      <<TRUE, FALSE, FALSE, FALSE>>, <<FALSE, TRUE, FALSE, FALSE>>,
      <<FALSE, FALSE, TRUE, FALSE>>, <<FALSE, FALSE, FALSE, TRUE>> }

-----------------------------------------------------------------------------
(* Reading the topology of a new grid *)

(* rmg.number_of_nodes, rmg.number_of_links, rmg.number_of_cells, ... *)
read_count(kind) ==
    /\ last' = [Call("number_of", "ok") EXCEPT !.key = <<kind>>, !.ref = ElementCount(kind)]
    /\ UNCHANGED <<driverVars, shape, gridVars, storeVars>>

(* rmg.links_at_node[n] *)
read_links_at_node(n) ==
    /\ last' = [Call("links_at_node", "ok") EXCEPT !.ref = n, !.res = links_at_node(n)]
    /\ UNCHANGED <<driverVars, shape, gridVars, storeVars>>

(* rmg.link_dirs_at_node[n] *)
read_link_dirs_at_node(n) ==
    /\ last' = [Call("link_dirs_at_node", "ok") EXCEPT !.ref = n, !.res = link_dirs_at_node(n)]
    /\ UNCHANGED <<driverVars, shape, gridVars, storeVars>>

(* rmg.node_at_link_tail[l] *)
read_node_at_link_tail(l) ==
    /\ last' = [Call("node_at_link_tail", "ok") EXCEPT !.ref = l, !.res = <<node_at_link_tail(l)>>]
    /\ UNCHANGED <<driverVars, shape, gridVars, storeVars>>

(* rmg.status_at_node[n] *)
read_status_at_node(n) ==
    /\ last' = [Call("status_at_node", "ok") EXCEPT !.ref = n, !.res = <<status_at_node[n]>>]
    /\ UNCHANGED <<driverVars, shape, gridVars, storeVars>>

(* rmg.number_of_core_nodes *)
read_number_of_core_nodes ==
    /\ last' = [Call("number_of_core_nodes", "ok") EXCEPT !.ref = number_of_core_nodes]
    /\ UNCHANGED <<driverVars, shape, gridVars, storeVars>>

InitTopology == \E s \in Shapes : RasterModelGrid(s)

NextTopology ==
    \/ \E kind \in Kinds : read_count(kind)
    \/ \E n \in Nodes : read_links_at_node(n)
    \/ \E n \in Nodes : read_link_dirs_at_node(n)
    \/ \E l \in LinkIds : read_node_at_link_tail(l)
    \/ \E n \in Nodes : read_status_at_node(n)
    \/ read_number_of_core_nodes

SpecTopology == InitTopology /\ [][NextTopology]_vars

-----------------------------------------------------------------------------
(* The grid and its boundary conditions, for every shape within the bounds *)

InitBoundary ==
    \E s \in Shapes :
        \/ RasterModelGrid(s)
        \/ \E kind \in DemKinds : read_esri_ascii(s, kind)

NextBoundary ==
    \/ \E e \in EdgeArgs : set_closed_boundaries_at_grid_edges(e[1], e[2], e[3], e[4])
    \/ \E e \in EdgeArgs : set_fixed_value_boundaries_at_grid_edges(e[1], e[2], e[3], e[4])
    \/ set_watershed_boundary_condition
    \/ /\ z # None
       /\ \E n \in OutletChoices(heap[z]) : set_watershed_boundary_condition_outlet_id(n)

SpecBoundary == InitBoundary /\ [][NextBoundary]_vars

-----------------------------------------------------------------------------
(* Node arrays seen as rasters *)

(* mg.node_y as an array: the y coordinate of every node, in node order.    *)
node_y_array == [ n \in 0 .. number_of_nodes - 1 |-> node_y(n) ]

(* A faulty reshape: the entries are laid out column by column.             *)
node_vector_to_raster_by_columns(u) ==
    LET R == number_of_node_rows
        C == number_of_node_columns
        place == [ k \in DOMAIN u |-> <<k % R, k \div R>> ]
    IN  [ row \in 0 .. R - 1 |->
            [ col \in 0 .. C - 1 |->
                u[CHOOSE k \in DOMAIN u : place[k] = <<row, col>>] ] ]

(* mg.node_vector_to_raster(u): the array u reshaped to (rows, columns).    *)
(* The reshape lays the entries of u out in order, filling one row of the  *)
(* raster after the other: entry k comes to lie in row k div C at column   *)
(* k mod C.                                                                *)
node_vector_to_raster(u) ==
    LET R == number_of_node_rows
        C == number_of_node_columns
        place == [ k \in DOMAIN u |-> <<k \div C, k % C>> ]
    IN  [ row \in 0 .. R - 1 |->
            [ col \in 0 .. C - 1 |->
                u[CHOOSE k \in DOMAIN u : place[k] = <<row, col>>] ] ]

(* elev_rast = mg.node_vector_to_raster(z) *)
elev_rast ==
    /\ z # None
    /\ Size(heap[z]) = number_of_nodes
    /\ last' = [Call("node_vector_to_raster", "ok")
                    EXCEPT !.key = <<"z">>, !.ref = z,
                           !.res = node_vector_to_raster(heap[z])]
    /\ UNCHANGED <<driverVars, shape, gridVars, storeVars>>

(* ycoord_rast = mg.node_vector_to_raster(mg.node_y) *)
ycoord_rast ==
    /\ last' = [Call("node_vector_to_raster", "ok")
                    EXCEPT !.key = <<"node_y">>,
                           !.res = node_vector_to_raster(node_y_array)]
    /\ UNCHANGED <<driverVars, shape, gridVars, storeVars>>

InitRaster ==
    \E s \in Shapes, kind \in DemKinds : read_esri_ascii(s, kind)

NextRaster ==
    \/ elev_rast
    \/ ycoord_rast
    \/ write_caller

SpecRaster == InitRaster /\ [][NextRaster]_vars

-----------------------------------------------------------------------------
(* The watershed boundary conditions of the overland-flow notebook, on a    *)
(* raster of every shape within the bounds                                  *)

InitWatershed ==
    \E s \in Shapes, kind \in WatershedDems : read_esri_ascii(s, kind)

NextWatershed ==
    \/ set_watershed_boundary_condition
    \/ \E n \in OutletChoices(heap[z]) : set_watershed_boundary_condition_outlet_id(n)

SpecWatershed == InitWatershed /\ [][NextWatershed]_vars

-----------------------------------------------------------------------------
(* The edge setters alone, on a new grid of every shape within the bounds,  *)
(* with no field or with the elevation field read from a raster            *)

InitEdges ==
    \E s \in Shapes :
        \/ RasterModelGrid(s)
        \/ read_esri_ascii(s, "open")

NextEdges ==
    \/ \E e \in EdgeArgs : set_closed_boundaries_at_grid_edges(e[1], e[2], e[3], e[4])
    \/ \E e \in EdgeArgs : set_fixed_value_boundaries_at_grid_edges(e[1], e[2], e[3], e[4])

SpecEdges == InitEdges /\ [][NextEdges]_vars

-----------------------------------------------------------------------------
(* The field store of the tutorial's 4x5 grid, with the boundary conditions *)
(* and the component step of the tutorial's first model                     *)

TutorialShape == <<4, 5>>

(* The length of the arrays the driver makes: one entry per node.          *)
ArrayLengths == { number_of_nodes }

(* The fields each call is made for: an array is attached as the elevation *)
(* of any kind of element; zeros are made for the elevation and the         *)
(* discharge at the nodes and for the elevation of the patches; a mapped   *)
(* discharge, one value per node, is assigned to the discharge at the      *)
(* nodes and to the elevation of the patches; elements are written in the  *)
(* two node fields; the fields read are these two and the discharge at the *)
(* links.                                                                  *)
AttachKeys == Kinds \X { "topographic__elevation" }
ZerosKeys == { Elevation, <<"node", "surface_water__discharge">>,
               <<"patch", "topographic__elevation">> }
AssignKeys == { <<"node", "surface_water__discharge">>,
                <<"patch", "topographic__elevation">> }
WriteKeys == { Elevation, <<"node", "surface_water__discharge">> }
ReadKeys == WriteKeys \cup { <<"link", "surface_water__discharge">> }

InitStore == RasterModelGrid(TutorialShape)

NextStore ==
    \/ \E n \in ArrayLengths : new_array(n)
    \/ \E key \in AttachKeys : add_field(key[1], key[2])
    \/ \E key \in ZerosKeys : add_zeros(key[1], key[2])
    \/ \E key \in AssignKeys : setitem(key[1], key[2])
    \/ write_caller
    \/ \E key \in WriteKeys : write_store(key[1], key[2])
    \/ \E key \in ReadKeys : getitem(key[1], key[2])
    \/ \E v \in StepValues : run_one_step(v)
    \/ set_closed_boundaries_at_grid_edges(TRUE, FALSE, TRUE, FALSE)
    \/ set_fixed_value_boundaries_at_grid_edges(FALSE, TRUE, FALSE, TRUE)

SpecStore == InitStore /\ [][NextStore]_vars

-----------------------------------------------------------------------------
(* The driver loops.  A driver is the notebook's own top-level code: one    *)
(* statement is executed at a time, and a call returns before the next     *)
(* statement is begun.  pc names the loop and the statement to execute     *)
(* next.                                                                   *)

(* A faulty order: the erosion step is taken before the flow is            *)
(* accumulated.                                                            *)
Body_erosion_first(loop) ==
    CASE loop = "diffusion" -> <<"lin_diffuse.run_one_step", "uplift">>
      [] loop = "landscape" -> <<"lin_diffuse.run_one_step", "fsc.run_one_step",
                                 "fa.run_one_step", "uplift">>
      [] loop = "kinwave" -> <<"kw.run_one_step", "append", "elapsed_time += dt">>
      [] loop = "kinwave slices" -> <<"kw.run_one_step", "elapsed_time += dt">>
      [] loop \in { "overland", "overland slices" } ->
             <<"of.calc_time_step", "of.rainfall_intensity", "of.overland_flow",
               "discharge_mapper", "append", "elapsed_time += of.delta_t">>

(* The statements of each loop body, in the order they are written. *)
Body(loop) ==
    CASE loop = "diffusion" -> <<"lin_diffuse.run_one_step", "uplift">>
      [] loop = "landscape" -> <<"lin_diffuse.run_one_step", "fa.run_one_step",
                                 "fsc.run_one_step", "uplift">>
      [] loop = "kinwave" -> <<"kw.run_one_step", "append", "elapsed_time += dt">>
      [] loop = "kinwave slices" -> <<"kw.run_one_step", "elapsed_time += dt">>
      [] loop \in { "overland", "overland slices" } ->
             <<"of.calc_time_step", "of.rainfall_intensity", "of.overland_flow",
               "discharge_mapper", "append", "elapsed_time += of.delta_t">>

LoopHead(loop) == IF loop \in { "diffusion", "landscape" } THEN "for" ELSE "while"

(* The statement executed after statement s of the loop: the next of the   *)
(* body, and the loop head after the last.                                 *)
After(loop, s) ==
    LET body == Body(loop)
        k == CHOOSE j \in DOMAIN body : body[j] = s IN
    IF k = Len(body) THEN LoopHead(loop) ELSE body[k + 1]

(* Statement s of the loop body is executed: it saw the fields as they     *)
(* were last written, it has written its own fields, and control passes to *)
(* the statement after it.                                                 *)
Ran(s, written) ==
    /\ pc.at = s
    /\ pc' = [pc EXCEPT !.at = After(pc.loop, s)]
    /\ done' = [done EXCEPT ![s] = @ + 1]
    /\ saw' = [saw EXCEPT ![s] = stamp]
    /\ stamp' = [ f \in ExchangedFields |-> IF f \in written THEN <<s, i>> ELSE stamp[f] ]

(* for i in range(nt): *)
for_i_in_range_nt ==
    /\ pc.at = "for"
    /\ LET next == IF i = None THEN 0 ELSE i + 1 IN
       IF next < nt
       THEN /\ i' = next
            /\ pc' = [pc EXCEPT !.at = Body(pc.loop)[1]]
       ELSE /\ i' = i
            /\ pc' = [pc EXCEPT !.at = "done"]
    /\ last' = Call("for", "ok")
    /\ UNCHANGED <<shape, gridVars, storeVars, nt, dt, time, hydrographVars, ofVars, ghostVars>>

(* lin_diffuse.run_one_step(dt) as a statement of a loop *)
lin_diffuse_run_one_step ==
    /\ Ran("lin_diffuse.run_one_step", { "topographic__elevation" })
    /\ \E v \in StepValues : Stepped(v)
    /\ UNCHANGED <<loopVars, hydrographVars, ofVars, ran_with>>

(* uplift_rate = 0.001 of the length unit a year, in millionths of it: all  *)
(* heights of the driver models are in millionths of the length unit       *)
uplift_rate == 1000

(* total_t = 200000. years *)
total_t == 200000

(* A faulty uplift: the amount is added at every node. *)
Uplifted_everywhere(a, amount) == [ k \in DOMAIN a |-> a[k] + amount ]

(* The array with amount added at the core nodes. *)
Uplifted(a, amount) ==
    [ k \in DOMAIN a |-> IF k \in core_nodes THEN a[k] + amount ELSE a[k] ]

(* z[mg.core_nodes] += uplift_rate * dt: the driver's z is raised in place  *)
z_core_nodes_uplift ==
    /\ pc.loop = "diffusion"
    /\ Ran("uplift", { "topographic__elevation" })
    /\ heap' = [heap EXCEPT ![z] = Uplifted(@, uplift_rate * dt)]
    /\ pristine' = IF core_nodes = {} THEN pristine ELSE pristine \ FieldsOf(z)
    /\ last' = [Call("uplift", "ok") EXCEPT !.ref = z, !.res = <<uplift_rate * dt>>]
    /\ UNCHANGED <<shape, gridVars, fields, ever, z, bound, loopVars, hydrographVars, ofVars, ran_with>>

(* The grid of the first model when its loop is entered: mg =              *)
(* RasterModelGrid((80, 80), 5.), z = mg.add_zeros('node',                 *)
(* 'topographic__elevation'), the left and right edges closed and the top  *)
(* and bottom edges fixed-value, and total_t, dt and nt assigned.  Heights *)
(* are in micrometres and times in years.                                  *)
diffusion_model(s) ==
    /\ shape = s
    /\ status_at_node = SetStatus(SetStatus(DefaultStatus,
                                            EdgeNodes(TRUE, FALSE, TRUE, FALSE),
                                            CLOSED_BOUNDARY),
                                  EdgeNodes(FALSE, TRUE, FALSE, TRUE),
                                  FIXED_VALUE_BOUNDARY)
    /\ active_links = ActiveLinksOf(status_at_node)
    /\ heap = <<Zeros(s[1] * s[2])>>
    /\ fields = [ k \in { Elevation } |-> 1 ]
    /\ ever = { Elevation }
    /\ z = 1
    /\ bound = { Elevation }
    /\ pristine = { Elevation }
    /\ last = Call("LinearDiffuser", "ok")
    /\ pc = [loop |-> "diffusion", at |-> "for"]
    /\ i = None
    /\ time = None
    /\ dt = 1000
    /\ nt = total_t \div dt
    /\ elapsed_time = 0
    /\ outlet = None
    /\ hydrograph_time = << >>
    /\ discharge_at_outlet = << >>
    /\ done = NoneDone
    /\ stamp = NoStamp
    /\ saw = NothingSeen
    /\ of_delta_t = None
    /\ of_rainfall_intensity = None
    /\ ran_with = << >>

InitDiffusion == \E s \in Shapes : diffusion_model(s)

NextDiffusion ==
    \/ for_i_in_range_nt
    \/ lin_diffuse_run_one_step
    \/ z_core_nodes_uplift

(* The interpreter goes on to the next statement for as long as there is   *)
(* one.                                                                    *)
SpecDiffusion == InitDiffusion /\ [][NextDiffusion]_vars /\ WF_vars(NextDiffusion)

-----------------------------------------------------------------------------
(* The second model: diffusion, flow accumulation, stream-power erosion and *)
(* uplift                                                                  *)

DrainageArea == <<"node", "drainage_area">>

(* The drainage areas a flow accumulation may leave at the nodes. *)
AreaValues == { 1 }

(* fa.run_one_step(): the flow is routed over the elevation field and the  *)
(* drainage area field of the grid is updated in place.                    *)
fa_run_one_step ==
    /\ Ran("fa.run_one_step", { "drainage_area" })
    /\ DrainageArea \in Registered
    /\ \E v \in AreaValues :
          heap' = [heap EXCEPT ![fields[DrainageArea]] = [ k \in DOMAIN @ |-> v ]]
    /\ pristine' = pristine \ FieldsOf(fields[DrainageArea])
    /\ last' = [Call("run_one_step", "ok")
                    EXCEPT !.key = DrainageArea, !.ref = fields[DrainageArea]]
    /\ UNCHANGED <<shape, gridVars, fields, ever, z, bound, loopVars, hydrographVars, ofVars, ran_with>>

(* fsc.run_one_step(dt): the elevation field is lowered in place at the    *)
(* core nodes.                                                             *)
fsc_run_one_step ==
    /\ Ran("fsc.run_one_step", { "topographic__elevation" })
    /\ \E v \in StepValues : Stepped(v)
    /\ UNCHANGED <<loopVars, hydrographVars, ofVars, ran_with>>

(* uplift_per_step = uplift_rate * dt = 0.001 * 0.5 *)
uplift_per_step == 500

(* mg.at_node['topographic__elevation'][mg.core_nodes] += uplift_per_step *)
at_node_core_nodes_uplift ==
    /\ pc.loop = "landscape"
    /\ Ran("uplift", { "topographic__elevation" })
    /\ Elevation \in Registered
    /\ heap' = [heap EXCEPT ![fields[Elevation]] = Uplifted(@, uplift_per_step)]
    /\ pristine' = IF core_nodes = {} THEN pristine
                                      ELSE pristine \ FieldsOf(fields[Elevation])
    /\ last' = [Call("uplift", "ok") EXCEPT !.key = Elevation, !.ref = fields[Elevation],
                                            !.res = <<uplift_per_step>>]
    /\ UNCHANGED <<shape, gridVars, fields, ever, z, bound, loopVars, hydrographVars, ofVars, ran_with>>

(* initial_roughness = np.random.rand(z.size)/100000.: below a hundred-    *)
(* thousandth of the length unit at every node                             *)
initial_roughness(n) == [ k \in 0 .. n - 1 |-> (3 * k) % 10 ]

(* The grid of the second model when its loop with diffusion is entered:   *)
(* mg = RasterModelGrid((nrows, ncols), dx), z the elevation field made by *)
(* add_zeros and reset to the initial roughness, the left and right edges  *)
(* closed and the top and bottom edges fixed-value, the drainage area      *)
(* field made by FlowAccumulator(mg), dt = 0.5 and nt = int(total_t // dt) *)
(* with total_t = 100.  Times are in tenths of a year.                     *)
landscape_model(s) ==
    /\ shape = s
    /\ status_at_node = SetStatus(SetStatus(DefaultStatus,
                                            EdgeNodes(TRUE, FALSE, TRUE, FALSE),
                                            CLOSED_BOUNDARY),
                                  EdgeNodes(FALSE, TRUE, FALSE, TRUE),
                                  FIXED_VALUE_BOUNDARY)
    /\ active_links = ActiveLinksOf(status_at_node)
    /\ heap = <<initial_roughness(s[1] * s[2]), Zeros(s[1] * s[2])>>
    /\ fields = [ k \in { Elevation, DrainageArea } |-> IF k = Elevation THEN 1 ELSE 2 ]
    /\ ever = { Elevation, DrainageArea }
    /\ z = 1
    /\ bound = { Elevation }
    /\ pristine = { DrainageArea }
    /\ last = Call("setitem", "ok")
    /\ pc = [loop |-> "landscape", at |-> "for"]
    /\ i = None
    /\ time = None
    /\ dt = 5
    /\ nt = 1000 \div dt
    /\ elapsed_time = 0
    /\ outlet = None
    /\ hydrograph_time = << >>
    /\ discharge_at_outlet = << >>
    /\ done = NoneDone
    /\ stamp = NoStamp
    /\ saw = NothingSeen
    /\ of_delta_t = None
    /\ of_rainfall_intensity = None
    /\ ran_with = << >>

InitLandscape == \E s \in Shapes : landscape_model(s)

NextLandscape ==
    \/ for_i_in_range_nt
    \/ lin_diffuse_run_one_step
    \/ fa_run_one_step
    \/ fsc_run_one_step
    \/ at_node_core_nodes_uplift

SpecLandscape == InitLandscape /\ [][NextLandscape]_vars /\ WF_vars(NextLandscape)

-----------------------------------------------------------------------------
(* The overland flow driver with KinwaveImplicitOverlandFlow *)

(* model_run_time = 6: duration of the model run, in hours *)
model_run_time == 6

(* storm_duration = 2: duration of the storm, in hours *)
storm_duration == 2

(* rainfall_intensity = 15, in millimetres an hour *)
rainfall_intensity == 15

Inflow == <<"node", "surface_water_inflow__discharge">>

(* mg.at_node['surface_water__discharge'], the discharge mapped onto the   *)
(* nodes, and of.q, the discharge the component keeps at the links         *)
Mapped == <<"node", "surface_water__discharge">>
LinkDischarge == <<"link", "surface_water__discharge">>

(* The discharges a step of the component may leave at the nodes. *)
DischargeValues == { 3 }

(* The raster is read with the driver's variables of lines 87-94 assigned: *)
(* elapsed_time = 0, the two lists empty, dt = 600.                        *)
kinwave_model(s, kind) ==
    /\ esri_ascii_grid(s, kind)
    /\ pc = [loop |-> "kinwave", at |-> "setup"]
    /\ i = None
    /\ time = None
    /\ nt = 0
    /\ dt = 600
    /\ elapsed_time = 0
    /\ outlet = None
    /\ hydrograph_time = << >>
    /\ discharge_at_outlet = << >>
    /\ done = NoneDone
    /\ stamp = NoStamp
    /\ saw = NothingSeen
    /\ of_delta_t = None
    /\ of_rainfall_intensity = None
    /\ ran_with = << >>

(* outlet_id = mg.core_nodes[np.argmin(z[mg.core_nodes])]: with no core    *)
(* node the statement raises and the driver stops.                         *)
outlet_id_assign ==
    /\ pc.at = "setup"
    /\ last.op = "set_watershed_boundary_condition"
    /\ last.err = "ok"
    /\ \E n \in LowestCoreNode(heap[z]) :
          /\ outlet' = n
          /\ last' = [Call("argmin", "ok") EXCEPT !.ref = n]
    /\ UNCHANGED <<shape, gridVars, storeVars, pc, loopVars, elapsed_time, hydrograph_time,
                   discharge_at_outlet, ofVars, ghostVars>>

(* kw = KinwaveImplicitOverlandFlow(mg, runoff_rate = 0.0, roughness = n,  *)
(* depth_exp = 5/3): the component makes its discharge field on the grid;  *)
(* the while loop is next.                                                 *)
KinwaveImplicitOverlandFlow ==
    /\ pc = [loop |-> "kinwave", at |-> "setup"]
    /\ last.op = "set_watershed_boundary_condition_outlet_id"
    /\ Inflow \notin Registered
    /\ heap' = Extend(heap, NewRef, Zeros(number_of_nodes))
    /\ fields' = Extend(fields, Inflow, NewRef)
    /\ ever' = ever \cup { Inflow }
    /\ pristine' = pristine \cup { Inflow }
    /\ pc' = [pc EXCEPT !.at = "while"]
    /\ last' = [Call("KinwaveImplicitOverlandFlow", "ok") EXCEPT !.key = Inflow, !.ref = NewRef]
    /\ UNCHANGED <<shape, gridVars, z, bound, loopVars, hydrographVars, ofVars, ghostVars>>

(* A faulty loop test: the loop is left when the elapsed time reaches the  *)
(* run time.                                                               *)
InRunTime_exclusive(t) == t < model_run_time * 3600

(* elapsed_time <= model_run_time*3600 *)
InRunTime(t) == t <= model_run_time * 3600

(* while elapsed_time <= model_run_time*3600: *)
while_elapsed_time ==
    /\ pc.loop \in { "kinwave", "overland" }
    /\ pc.at = "while"
    /\ pc.loop = "overland" => Len(hydrograph_time) < MaxSteps
    /\ pc' = [pc EXCEPT !.at = IF InRunTime(elapsed_time) THEN Body(pc.loop)[1] ELSE "done"]
    /\ last' = Call("while", "ok")
    /\ UNCHANGED <<shape, gridVars, storeVars, loopVars, hydrographVars, ofVars, ghostVars>>

(* A faulty switch: the storm never ends. *)
runoff_rate_unending(elapsed) == rainfall_intensity * 277778

(* The runoff rate passed to the step: rainfall_intensity*2.77778e-7       *)
(* while elapsed_time < storm_duration*3600 and 0.0 after, in units of     *)
(* 1e-12 metres a second.                                                  *)
runoff_rate(t) == IF t < storm_duration * 3600 THEN rainfall_intensity * 277778 ELSE 0

(* kw.run_one_step(dt, current_time = elapsed_time, runoff_rate = ...):    *)
(* the discharge field of the grid is updated in place.                    *)
kw_run_one_step ==
    /\ pc.loop \in { "kinwave", "kinwave slices" }
    /\ Ran("kw.run_one_step", {})
    /\ \E q \in DischargeValues :
          heap' = [heap EXCEPT ![fields[Inflow]] = [ k \in DOMAIN @ |-> q ]]
    /\ pristine' = pristine \ FieldsOf(fields[Inflow])
    /\ last' = [Call("run_one_step", "ok")
                    EXCEPT !.key = Inflow, !.ref = fields[Inflow],
                           !.res = <<dt, elapsed_time, runoff_rate(elapsed_time)>>]
    /\ ran_with' = Append(ran_with, <<elapsed_time, runoff_rate(elapsed_time)>>)
    /\ UNCHANGED <<shape, gridVars, fields, ever, z, bound, loopVars, hydrographVars, ofVars>>

(* elapsed_time/3600.: the time in hours, as the fraction                  *)
(* <<numerator, denominator>>                                              *)
Hours(t) == <<t, 3600>>

(* q_at_outlet = mg.at_node['surface_water_inflow__discharge'][outlet_id]; *)
(* hydrograph_time.append(elapsed_time/3600.);                             *)
(* discharge_at_outlet.append(q_at_outlet)                                 *)
append ==
    /\ pc.loop \in { "kinwave", "overland", "overland slices" }
    /\ Ran("append", {})
    /\ LET q_at_outlet == heap[fields[IF pc.loop = "kinwave" THEN Inflow ELSE Mapped]][outlet] IN
       /\ hydrograph_time' = Append(hydrograph_time, Hours(elapsed_time))
       /\ discharge_at_outlet' = Append(discharge_at_outlet, q_at_outlet)
       /\ last' = [Call("append", "ok") EXCEPT !.ref = outlet, !.res = <<q_at_outlet>>]
    /\ UNCHANGED <<shape, gridVars, storeVars, loopVars, elapsed_time, outlet, ofVars, ran_with>>

(* elapsed_time += dt *)
elapsed_time_plus_dt ==
    /\ pc.loop \in { "kinwave", "kinwave slices" }
    /\ Ran("elapsed_time += dt", {})
    /\ elapsed_time' = elapsed_time + dt
    /\ last' = Call("elapsed_time += dt", "ok")
    /\ UNCHANGED <<shape, gridVars, storeVars, loopVars, outlet, hydrograph_time,
                   discharge_at_outlet, ofVars, ran_with>>

(* The statements of the while loop. *)
KinwaveLoop ==
    \/ while_elapsed_time
    \/ kw_run_one_step
    \/ append
    \/ elapsed_time_plus_dt

InitKinwave == \E s \in Shapes, kind \in WatershedDems : kinwave_model(s, kind)

(* The cells in the order of the notebook: the watershed boundary          *)
(* condition on the raster read, the lowest core node, its designation as  *)
(* the outlet, the component, and the loop.                                *)
NextKinwave ==
    \/ last.op = "read_esri_ascii" /\ set_watershed_boundary_condition
    \/ outlet_id_assign
    \/ last.op = "argmin" /\ set_watershed_boundary_condition_outlet_id(outlet)
    \/ KinwaveImplicitOverlandFlow
    \/ KinwaveLoop

(* Once in the loop the interpreter goes on to the next statement for as   *)
(* long as there is one.                                                   *)
SpecKinwave == InitKinwave /\ [][NextKinwave]_vars /\ WF_vars(KinwaveLoop)

-----------------------------------------------------------------------------
(* The time-slice loops: water depth plots at 1, 2, ... 6 hours *)

(* t = (1, 2, 3, 4, 5, 6): time slices for the water depth plots, in hours *)
t == <<1, 2, 3, 4, 5, 6>>

(* t_sec = np.multiply(t, 3600) *)
t_sec == [ k \in DOMAIN t |-> t[k] * 3600 ]

SliceLoops == { "kinwave slices", "overland slices" }

(* elapsed_time = 0; t = (1, 2, 3, 4, 5, 6); t_sec = np.multiply(t, 3600)  *)
(* after the hydrograph loop of the same component: the lists are left as  *)
(* they are.                                                               *)
elapsed_time_reset ==
    /\ pc.loop \in { "kinwave", "overland" }
    /\ pc.at = "done"
    /\ pc' = [loop |-> IF pc.loop = "kinwave" THEN "kinwave slices" ELSE "overland slices",
              at |-> "for"]
    /\ elapsed_time' = 0
    /\ time' = None
    /\ done' = NoneDone
    /\ ran_with' = << >>
    /\ last' = Call("elapsed_time = 0", "ok")
    /\ UNCHANGED <<shape, gridVars, storeVars, i, nt, dt, outlet, hydrograph_time,
                   discharge_at_outlet, ofVars, stamp, saw>>

(* for time in t_sec: *)
for_time_in_t_sec ==
    /\ pc.loop \in SliceLoops
    /\ pc.at = "for"
    /\ LET k == Cardinality({ j \in DOMAIN t_sec : time # None /\ t_sec[j] <= time }) IN
       IF k < Len(t_sec)
       THEN /\ time' = t_sec[k + 1]
            /\ pc' = [pc EXCEPT !.at = "while"]
       ELSE /\ time' = time
            /\ pc' = [pc EXCEPT !.at = "done"]
    /\ last' = Call("for", "ok")
    /\ UNCHANGED <<shape, gridVars, storeVars, i, nt, dt, hydrographVars, ofVars, ghostVars>>

(* A faulty loop test: a step is still taken when the elapsed time has     *)
(* reached the slice.                                                      *)
BeforeSlice_inclusive(elapsed, slice) == elapsed <= slice

(* elapsed_time < time *)
BeforeSlice(elapsed, slice) == elapsed < slice

(* while elapsed_time < time: and, when the test fails, the statements     *)
(* after the inner loop                                                    *)
while_elapsed_time_lt_time ==
    /\ pc.loop \in SliceLoops
    /\ pc.at = "while"
    /\ pc.loop = "overland slices" => Len(hydrograph_time) < MaxSteps
    /\ pc' = [pc EXCEPT !.at = IF BeforeSlice(elapsed_time, time)
                               THEN Body(pc.loop)[1] ELSE "plot"]
    /\ last' = Call("while", "ok")
    /\ UNCHANGED <<shape, gridVars, storeVars, loopVars, hydrographVars, ofVars, ghostVars>>

(* plt.figure(time/3600); imshow_grid(mg, 'surface_water__depth', ...);    *)
(* plt.show(): the plot of the slice is drawn; nothing of the grid or the  *)
(* driver changes.                                                         *)
plot ==
    /\ pc.loop \in SliceLoops
    /\ pc.at = "plot"
    /\ pc' = [pc EXCEPT !.at = "for"]
    /\ done' = [done EXCEPT !["plot"] = @ + 1]
    /\ last' = [Call("imshow_grid", "ok") EXCEPT !.res = <<time, elapsed_time>>]
    /\ UNCHANGED <<shape, gridVars, storeVars, loopVars, hydrographVars, ofVars, stamp, saw,
                   ran_with>>

(* The statements of a time-slice loop around the body of its inner loop.  *)
Slices ==
    \/ elapsed_time_reset
    \/ for_time_in_t_sec
    \/ while_elapsed_time_lt_time
    \/ plot

(* The time-slice loop of KinwaveImplicitOverlandFlow follows the          *)
(* hydrograph loop of the same component on the same grid; the step and    *)
(* the advance of the elapsed time are the statements of that loop.        *)
NextKinwaveSlices ==
    \/ NextKinwave
    \/ Slices

SpecKinwaveSlices ==
    InitKinwave /\ [][NextKinwaveSlices]_vars /\ WF_vars(KinwaveLoop \/ Slices)

-----------------------------------------------------------------------------
(* The overland flow driver with OverlandFlow and its adaptive time step *)

(* The time steps of.calc_time_step() may return, in seconds. *)
DeltaTs == { 0, 7200, 10800 }

(* The raster is read again (lines 316-320) with elapsed_time = 0 and the  *)
(* two lists emptied (lines 298-300); dt is still 600.                     *)
overland_model(s, kind) ==
    /\ esri_ascii_grid(s, kind)
    /\ pc = [loop |-> "overland", at |-> "setup"]
    /\ i = None
    /\ time = None
    /\ nt = 0
    /\ dt = 600
    /\ elapsed_time = 0
    /\ outlet = None
    /\ hydrograph_time = << >>
    /\ discharge_at_outlet = << >>
    /\ done = NoneDone
    /\ stamp = NoStamp
    /\ saw = NothingSeen
    /\ of_delta_t = None
    /\ of_rainfall_intensity = None
    /\ ran_with = << >>

(* of = OverlandFlow(mg, mannings_n = n, steep_slopes = True): the         *)
(* component makes its discharge field at the links; the while loop is     *)
(* next.                                                                   *)
OverlandFlow ==
    /\ pc = [loop |-> "overland", at |-> "setup"]
    /\ last.op = "set_watershed_boundary_condition_outlet_id"
    /\ LinkDischarge \notin Registered
    /\ heap' = Extend(heap, NewRef, Zeros(number_of_links))
    /\ fields' = Extend(fields, LinkDischarge, NewRef)
    /\ ever' = ever \cup { LinkDischarge }
    /\ pristine' = pristine \cup { LinkDischarge }
    /\ pc' = [pc EXCEPT !.at = "while"]
    /\ last' = [Call("OverlandFlow", "ok") EXCEPT !.key = LinkDischarge, !.ref = NewRef]
    /\ UNCHANGED <<shape, gridVars, z, bound, loopVars, hydrographVars, ofVars, ghostVars>>

(* of.delta_t = of.calc_time_step() *)
of_calc_time_step ==
    /\ Ran("of.calc_time_step", {})
    /\ \E delta \in DeltaTs :
          /\ of_delta_t' = delta
          /\ last' = [Call("calc_time_step", "ok") EXCEPT !.res = <<delta>>]
    /\ UNCHANGED <<shape, gridVars, storeVars, loopVars, hydrographVars,
                   of_rainfall_intensity, ran_with>>

(* if elapsed_time < storm_duration*3600: of.rainfall_intensity =          *)
(* rainfall_intensity*2.77778e-7 else: of.rainfall_intensity = 0.0         *)
of_rainfall_intensity_assign ==
    /\ Ran("of.rainfall_intensity", {})
    /\ of_rainfall_intensity' = runoff_rate(elapsed_time)
    /\ last' = [Call("of.rainfall_intensity", "ok") EXCEPT !.res = <<runoff_rate(elapsed_time)>>]
    /\ UNCHANGED <<shape, gridVars, storeVars, loopVars, hydrographVars, of_delta_t, ran_with>>

(* of.overland_flow(): the step is run with the rainfall intensity set on  *)
(* the component; its discharge at the links is updated in place.  The     *)
(* driver's of.delta_t is not an attribute the component reads or writes.  *)
of_overland_flow ==
    /\ Ran("of.overland_flow", {})
    /\ \E q \in DischargeValues :
          heap' = [heap EXCEPT ![fields[LinkDischarge]] = [ k \in DOMAIN @ |-> q ]]
    /\ pristine' = pristine \ FieldsOf(fields[LinkDischarge])
    /\ ran_with' = Append(ran_with, <<elapsed_time, of_rainfall_intensity>>)
    /\ last' = [Call("overland_flow", "ok")
                    EXCEPT !.key = LinkDischarge, !.ref = fields[LinkDischarge],
                           !.res = <<elapsed_time, of_rainfall_intensity>>]
    /\ UNCHANGED <<shape, gridVars, fields, ever, z, bound, loopVars, hydrographVars, ofVars>>

(* mg.at_node['surface_water__discharge'] = of.discharge_mapper(of.q,      *)
(* convert_to_volume = True): the mapper returns a new array, one value    *)
(* per node, and the store holds it under the name in place of the array   *)
(* of the loop before; nothing else refers to that array, and its          *)
(* reference is used again.                                                *)
discharge_mapper ==
    /\ Ran("discharge_mapper", {})
    /\ LET ref == IF Mapped \in Registered THEN fields[Mapped] ELSE NewRef IN
       /\ \E q \in { heap[fields[LinkDischarge]][0] } :
             heap' = Extend(heap, ref, [ k \in Nodes |-> q ])
       /\ fields' = Extend(fields, Mapped, ref)
       /\ last' = [Call("setitem", "ok") EXCEPT !.key = Mapped, !.ref = ref,
                                                !.res = Held(Mapped)]
    /\ ever' = ever \cup { Mapped }
    /\ pristine' = pristine \ { Mapped }
    /\ UNCHANGED <<shape, gridVars, z, bound, loopVars, hydrographVars, ofVars, ran_with>>

(* A faulty advance: the time step is computed again and the new value is  *)
(* added.                                                                  *)
elapsed_time_plus_calc_time_step ==
    /\ Ran("elapsed_time += of.delta_t", {})
    /\ \E delta \in DeltaTs : elapsed_time' = elapsed_time + delta
    /\ last' = Call("elapsed_time += of.delta_t", "ok")
    /\ UNCHANGED <<shape, gridVars, storeVars, loopVars, outlet, hydrograph_time,
                   discharge_at_outlet, ofVars, ran_with>>

(* elapsed_time += of.delta_t *)
elapsed_time_plus_of_delta_t ==
    /\ Ran("elapsed_time += of.delta_t", {})
    /\ elapsed_time' = elapsed_time + of_delta_t
    /\ last' = Call("elapsed_time += of.delta_t", "ok")
    /\ UNCHANGED <<shape, gridVars, storeVars, loopVars, outlet, hydrograph_time,
                   discharge_at_outlet, ofVars, ran_with>>

(* The statements of a loop body that are made with OverlandFlow only. *)
OverlandBody ==
    \/ of_calc_time_step
    \/ of_rainfall_intensity_assign
    \/ of_overland_flow
    \/ discharge_mapper
    \/ elapsed_time_plus_of_delta_t

(* The statements of the while loop of OverlandFlow. *)
OverlandLoop ==
    \/ while_elapsed_time
    \/ append
    \/ OverlandBody

InitOverland == \E s \in Shapes, kind \in WatershedDems : overland_model(s, kind)

NextOverland ==
    \/ last.op = "read_esri_ascii" /\ set_watershed_boundary_condition
    \/ outlet_id_assign
    \/ last.op = "argmin" /\ set_watershed_boundary_condition_outlet_id(outlet)
    \/ OverlandFlow
    \/ OverlandLoop

SpecOverland == InitOverland /\ [][NextOverland]_vars /\ WF_vars(OverlandLoop)

-----------------------------------------------------------------------------
(* The overland flow notebook from its first cell to its last *)

(* elapsed_time = 0; hydrograph_time = []; discharge_at_outlet = [] and    *)
(* mg, z = read_esri_ascii('SpringCreek_DEM.asc', ...) once more, after    *)
(* the loops of KinwaveImplicitOverlandFlow: a new grid of the same raster *)
(* with its elevation field only.                                          *)
reload ==
    /\ pc = [loop |-> "kinwave slices", at |-> "done"]
    /\ pc' = [loop |-> "overland", at |-> "setup"]
    /\ elapsed_time' = 0
    /\ hydrograph_time' = << >>
    /\ discharge_at_outlet' = << >>
    /\ status_at_node' = DefaultStatus
    /\ active_links' = ActiveLinksOf(DefaultStatus)
    /\ heap' = <<heap[z]>>
    /\ fields' = [ k \in { Elevation } |-> 1 ]
    /\ ever' = { Elevation }
    /\ z' = 1
    /\ bound' = { Elevation }
    /\ pristine' = {}
    /\ done' = NoneDone
    /\ ran_with' = << >>
    /\ last' = Call("read_esri_ascii", "ok")
    /\ UNCHANGED <<shape, loopVars, outlet, ofVars, stamp, saw>>

(* The cells of the notebook in their order: the loops of                  *)
(* KinwaveImplicitOverlandFlow, the raster read again, and the loops of    *)
(* OverlandFlow.                                                           *)
NextNotebook ==
    \/ NextKinwave
    \/ Slices
    \/ reload
    \/ OverlandFlow
    \/ OverlandBody

SpecNotebook ==
    InitKinwave /\ [][NextNotebook]_vars
                /\ WF_vars(KinwaveLoop \/ Slices \/ OverlandBody)

-----------------------------------------------------------------------------
(* Properties of the topology *)

(* Every link is listed at its tail node and at its head node and at no     *)
(* other node, and its entry in the direction list is atTail at its tail   *)
(* node and atHead at its head node.                                       *)
LinkSigns(atTail, atHead) ==
    \A n \in Nodes :
        LET ls == links_at_node(n)
            ds == link_dirs_at_node(n)
            here == { ls[k] : k \in DOMAIN ls } \ { None }
        IN  /\ \A l \in Links : l.id \in here <=> n \in { l.tail, l.head }
            /\ \A k \in DOMAIN ls :
                  ls[k] # None =>
                      ds[k] = IF node_at_link_tail(ls[k]) = n THEN atTail ELSE atHead

(* C1: a grid of R rows and C columns has R*C nodes, 2*R*C - R - C links,   *)
(* (R-1)*(C-1) patches and (R-2)*(C-2) cells, and the count accessors       *)
(* return these numbers; the 4x5 grid has 20 nodes, 31 links, 12 patches    *)
(* and 6 cells.                                                             *)
C1_ElementCounts ==
    LET R == number_of_node_rows
        C == number_of_node_columns
        Expected == [node  |-> R * C,
                     link  |-> 2 * R * C - R - C,
                     patch |-> (R - 1) * (C - 1),
                     cell  |-> (R - 2) * (C - 2)]
    IN  /\ number_of_nodes = Expected.node
        /\ number_of_links = Expected.link
        /\ number_of_patches = Expected.patch
        /\ number_of_cells = Expected.cell
        /\ LinkIds = 0 .. Expected.link - 1
        /\ last.op = "number_of" /\ last.key[1] \in DOMAIN Expected
              => last.ref = Expected[last.key[1]]
        /\ shape = <<4, 5>>
              => /\ number_of_nodes = 20 /\ number_of_links = 31
                 /\ number_of_patches = 12 /\ number_of_cells = 6

C1_Witness ==
    /\ shape = <<4, 5>>
    /\ last.op = "number_of" /\ last.key = <<"link">> /\ last.ref = 31

(* C2: on a grid that has cells, the node, link and patch sets are each     *)
(* strictly larger than the corner, face and cell sets.                     *)
C2_PrimarySetsLarger ==
    number_of_cells > 0
        => /\ number_of_nodes > number_of_corners
           /\ number_of_links > number_of_faces
           /\ number_of_patches > number_of_cells

C2_Witness ==
    /\ shape = <<3, 4>>
    /\ number_of_cells = 2 /\ number_of_faces = 7 /\ number_of_corners = 6
    /\ last.op = "number_of" /\ last.key = <<"face">> /\ last.ref = 7

(* C3, as the specification states it: the number of corners is             *)
(* (R-2)*(C-2), the number of cells.                                        *)
C3_CornersAsManyAsCells ==
    /\ number_of_corners = (number_of_node_rows - 2) * (number_of_node_columns - 2)
    /\ number_of_corners = number_of_cells

(* C3, as the reference diagram draws it: the number of corners is          *)
(* (R-1)*(C-1), one per patch; the 3x4 grid has 6 corners and 2 cells.      *)
C3_CornersAsManyAsPatches ==
    /\ number_of_corners = (number_of_node_rows - 1) * (number_of_node_columns - 1)
    /\ number_of_corners = number_of_patches
    /\ { c.id : c \in Corners } = 0 .. number_of_patches - 1
    /\ last.op = "number_of" /\ last.key = <<"corner">>
          => last.ref = (number_of_node_rows - 1) * (number_of_node_columns - 1)
    /\ shape = <<3, 4>> => number_of_corners = 6 /\ number_of_cells = 2

C3_Witness ==
    /\ shape = <<3, 4>>
    /\ last.op = "number_of" /\ last.key = <<"corner">> /\ last.ref = 6

(* What C4 holds of the geometry and of the two lists: a horizontal link's  *)
(* head lies at greater x than its tail and at the same y, a vertical       *)
(* link's at greater y and the same x; the direction list has a 0 exactly   *)
(* in the slots where the link list has no link.                           *)
LinkGeometry ==
    /\ \A l \in Links :
          /\ l.dir = "E" => /\ node_x(l.head) > node_x(l.tail)
                            /\ node_y(l.head) = node_y(l.tail)
          /\ l.dir = "N" => /\ node_y(l.head) > node_y(l.tail)
                            /\ node_x(l.head) = node_x(l.tail)
    /\ \A n \in Nodes :
          LET ls == links_at_node(n)
              ds == link_dirs_at_node(n)
          IN  /\ DOMAIN ls = DOMAIN ds
              /\ \A k \in DOMAIN ls :
                    /\ ls[k] = None <=> ds[k] = 0
                    /\ ls[k] # None => ls[k] \in LinkIds /\ ds[k] \in { -1, 1 }
              /\ \A j, k \in DOMAIN ls : j # k /\ ls[j] # None => ls[j] # ls[k]

-----------------------------------------------------------------------------
(* Properties of the boundary statuses *)

(* The nodes on the outer perimeter: those that lack a link on some side.   *)
PerimeterNodes ==
    { n \in Nodes : LET ls == links_at_node(n) IN \E k \in DOMAIN ls : ls[k] = None }

C6_DefaultStatus ==
    last.op \in { "RasterModelGrid", "read_esri_ascii" }
        => /\ \A n \in Nodes :
                status_at_node[n] = IF n \in PerimeterNodes THEN FIXED_VALUE_BOUNDARY
                                                            ELSE CORE_NODE
           /\ number_of_core_nodes
                = (number_of_node_rows - 2) * (number_of_node_columns - 2)
           /\ shape = <<4, 5>>
                => /\ Cardinality({ n \in Nodes :
                                      status_at_node[n] = FIXED_VALUE_BOUNDARY }) = 14
                   /\ number_of_core_nodes = 6

C6_Witness ==
    /\ shape = <<4, 5>>
    /\ last.op = "RasterModelGrid"
    /\ status_at_node[13] = CORE_NODE
    /\ status_at_node[14] = FIXED_VALUE_BOUNDARY
    /\ number_of_core_nodes = 6

-----------------------------------------------------------------------------
(* Properties of the field store *)

Discharge == <<"node", "surface_water__discharge">>

(* C7: a field is held by reference.  While the driver's z is bound to a    *)
(* field, the array read through the store and the driver's array agree    *)
(* after every write through either of them; a field made by add_zeros     *)
(* reads back as one zero per element of its kind until it is written.     *)
C7_HeldByReference ==
    /\ \A key \in bound :
          /\ key \in Registered
          /\ heap[fields[key]] = heap[z]
    /\ \A key \in pristine :
          /\ key \in Registered
          /\ Size(heap[fields[key]]) = ElementCount(key[1])
          /\ \A k \in DOMAIN heap[fields[key]] : heap[fields[key]][k] = 0

(* The driver has written z[13] = 100 to the array it attached as the       *)
(* elevation field, and the store shows the write.                         *)
C7_Witness ==
    /\ last.op = "write_caller"
    /\ Elevation \in bound
    /\ heap[z] # Zeros(number_of_nodes)
    /\ heap[z][13] = 100
    /\ heap[fields[Elevation]][13] = 100

C9_ReadFailsIffNeverRegistered ==
    /\ Registered = ever
    /\ last.op \in { "getitem", "write_store" }
          => (last.err = "FieldError" <=> last.key \notin ever)
    /\ last.op \in { "getitem", "write_store" } /\ last.err = "ok"
          => last.ref = fields[last.key]

(* The elevation field is read after the side edges were closed and a       *)
(* component step has updated the core nodes.                              *)
C9_Witness ==
    /\ last.op = "getitem" /\ last.err = "ok" /\ last.key = Elevation
    /\ status_at_node[5] = CLOSED_BOUNDARY
    /\ \A n \in core_nodes : heap[fields[Elevation]][n] \in StepValues

-----------------------------------------------------------------------------
(* Properties of the edge setters *)

EdgeSetters ==
    { "set_closed_boundaries_at_grid_edges", "set_fixed_value_boundaries_at_grid_edges" }

(* The status an edge setter gives the nodes it selects. *)
KindOf(op) ==
    IF op = "set_closed_boundaries_at_grid_edges" THEN CLOSED_BOUNDARY
                                                  ELSE FIXED_VALUE_BOUNDARY

(* The nodes of the selected edges by row and column, <<right, top, left,   *)
(* bottom>>: with the corner nodes counted to every edge they lie on, and  *)
(* with the corner nodes counted to the top and bottom edges only.         *)
OnEdgesCornersShared(e) ==
    { n \in Nodes : \/ e[1] /\ ColOf(n) = number_of_node_columns - 1
                    \/ e[2] /\ RowOf(n) = number_of_node_rows - 1
                    \/ e[3] /\ ColOf(n) = 0
                    \/ e[4] /\ RowOf(n) = 0 }

OnEdgesCornersToRows(e) ==
    LET inner == 1 .. number_of_node_rows - 2 IN
    { n \in Nodes : \/ e[1] /\ ColOf(n) = number_of_node_columns - 1 /\ RowOf(n) \in inner
                    \/ e[2] /\ RowOf(n) = number_of_node_rows - 1
                    \/ e[3] /\ ColOf(n) = 0 /\ RowOf(n) \in inner
                    \/ e[4] /\ RowOf(n) = 0 }

OneEdge(e) == Cardinality({ k \in 1 .. 4 : e[k] }) = 1

SidesClosed ==
    \A n \in Nodes :
        status_at_node[n] =
            IF RowOf(n) \in { 0, number_of_node_rows - 1 } THEN FIXED_VALUE_BOUNDARY
            ELSE IF ColOf(n) \in { 0, number_of_node_columns - 1 } THEN CLOSED_BOUNDARY
            ELSE CORE_NODE

(* The statuses and link activity the tutorial announces: fixed value top   *)
(* and bottom, closed left and right.                                      *)
FixedTopBottomClosedSides ==
    /\ SidesClosed
    /\ \A l \in Links :
          /\ ColOf(l.tail) = ColOf(l.head)
          /\ ColOf(l.tail) \in { 0, number_of_node_columns - 1 }
          => l.id \notin active_links

(* C18: on a new grid, closing the left and right edges and then setting    *)
(* the top and bottom edges to fixed value leaves the top and bottom rows, *)
(* corner nodes included, fixed-value, the rest of the left and right      *)
(* columns closed, the interior core, and every link along the left or the *)
(* right column inactive.                                                  *)
C18_TutorialBoundaries ==
    [][ /\ last.op \in { "RasterModelGrid", "read_esri_ascii" }
           /\ last'.op = "set_closed_boundaries_at_grid_edges"
           /\ last'.key = <<TRUE, FALSE, TRUE, FALSE>>
           => SidesClosed'
        /\ last.op = "set_closed_boundaries_at_grid_edges"
           /\ last.key = <<TRUE, FALSE, TRUE, FALSE>>
           /\ SidesClosed
           /\ last'.op = "set_fixed_value_boundaries_at_grid_edges"
           /\ last'.key = <<FALSE, TRUE, FALSE, TRUE>>
           => FixedTopBottomClosedSides' ]_vars

(* The 4x5 grid after the two calls: 13 of its 31 links are active.         *)
C18_Witness ==
    /\ shape = <<4, 5>>
    /\ last.op = "set_fixed_value_boundaries_at_grid_edges"
    /\ last.key = <<FALSE, TRUE, FALSE, TRUE>>
    /\ status_at_node = [ n \in 0 .. 19 |->
                            IF n \in { 5, 10, 9, 14 } THEN CLOSED_BOUNDARY
                            ELSE IF n \in { 6, 7, 8, 11, 12, 13 } THEN CORE_NODE
                            ELSE FIXED_VALUE_BOUNDARY ]
    /\ Cardinality(active_links) = 13
    /\ { 4, 13, 22 } \cap active_links = {}

-----------------------------------------------------------------------------
(* Properties of the watershed outlet *)

OutletOp == "set_watershed_boundary_condition_outlet_id"

(* Every nodata node of the raster is closed; and the same of a raster that *)
(* has nodata nodes.                                                       *)
NodataAllClosed ==
    /\ z # None
    /\ \A n \in nodata_nodes(heap[z]) : status_at_node[n] = CLOSED_BOUNDARY

NodataClosed == NodataAllClosed /\ nodata_nodes(heap[z]) # {}

(* The statuses an outlet designation leaves: the outlet fixed-value, every *)
(* other node of the four grid edges and every nodata node closed, every   *)
(* other node as it was.                                                   *)
OutletDesignated(before, after, designated) ==
    \A n \in Nodes :
        after[n] =
            IF n = designated THEN FIXED_VALUE_BOUNDARY
            ELSE IF \/ Perimeter(number_of_node_rows, number_of_node_columns, n)
                    \/ heap[z][n] = NODATA
                 THEN CLOSED_BOUNDARY
                 ELSE before[n]

ActiveByStatus(status, active) ==
    \A l \in Links :
        l.id \in active
            <=> /\ status[l.tail] # CLOSED_BOUNDARY
                /\ status[l.head] # CLOSED_BOUNDARY
                /\ CORE_NODE \in { status[l.tail], status[l.head] }

-----------------------------------------------------------------------------
(* Properties of the raster view *)

(* C15: node ids run along the rows, x varying fastest; the raster view of  *)
(* a node array flat of length R*C has view[row][col] = flat[row*C + col]  *)
(* for every row and column of the grid; in the raster view of the node y  *)
(* coordinates all entries of a row are equal.                             *)
C15_RasterViewRowMajor ==
    LET R == number_of_node_rows
        C == number_of_node_columns
    IN  /\ Nodes = 0 .. R * C - 1
        /\ \A n \in Nodes :
              /\ n = node_y(n) * C + node_x(n)
              /\ node_x(n) \in 0 .. C - 1 /\ node_y(n) \in 0 .. R - 1
              /\ n + 1 \in Nodes /\ node_x(n) < C - 1
                    => node_x(n + 1) = node_x(n) + 1 /\ node_y(n + 1) = node_y(n)
        /\ last.op = "node_vector_to_raster"
              => LET view == last.res
                     flat == IF last.key = <<"z">> THEN heap[last.ref] ELSE node_y_array
                 IN  /\ DOMAIN view = 0 .. R - 1
                     /\ \A row \in 0 .. R - 1 :
                           /\ DOMAIN view[row] = 0 .. C - 1
                           /\ \A col \in 0 .. C - 1 :
                                 view[row][col] = flat[row * C + col]
                     /\ last.key = <<"node_y">>
                           => \A row \in 0 .. R - 1 :
                                 \A c1, c2 \in 0 .. C - 1 :
                                     view[row][c1] = view[row][c2]

(* The elevations of the 4x5 grid, written at node 13, seen as a raster:    *)
(* the value written lies in row 2 at column 3.                            *)
C15_Witness ==
    /\ shape = <<4, 5>>
    /\ last.op = "node_vector_to_raster" /\ last.key = <<"z">>
    /\ heap[z][13] = 100
    /\ last.res[2][3] = 100
    /\ last.res[0][1] = 2
    /\ last.res[1][0] = 6


-----------------------------------------------------------------------------
(* The driver loop of the first model *)

(* How many loops of the body have been completed when control is at the   *)
(* loop head or at the end.                                                *)
LoopsDone == IF i = None THEN 0 ELSE i + 1

(* Within each loop the diffusion step is taken once and then the uplift   *)
(* is added once.                                                          *)
DiffusionThenUplift ==
    LET diffused == done["lin_diffuse.run_one_step"]
        uplifted == done["uplift"] IN
    /\ pc.at \in { "for", "done" } => diffused = LoopsDone /\ uplifted = LoopsDone
    /\ pc.at = "lin_diffuse.run_one_step" => diffused = i /\ uplifted = i
    /\ pc.at = "uplift" => diffused = i + 1 /\ uplifted = i

(* The loop is left after nt = total_t // dt = 200 loops, and the time     *)
(* stepped through is total_t.                                             *)
EndsAfterTotalTime ==
    pc.at = "done" =>
        /\ nt = 200
        /\ nt = total_t \div dt
        /\ done["lin_diffuse.run_one_step"] = nt
        /\ done["uplift"] = nt
        /\ done["lin_diffuse.run_one_step"] * dt = total_t

(* The uplift raises the core nodes by uplift_rate * dt and leaves the     *)
(* boundary nodes, fixed-value or closed, as they were.                    *)
UpliftAtCoreOnly ==
    pc.at = "uplift" /\ pc'.at # "uplift" =>
        \A n \in Nodes :
            heap'[z][n] = IF status_at_node[n] = CORE_NODE
                          THEN heap[z][n] + uplift_rate * dt
                          ELSE heap[z][n]

(* C19: the diffusion driver runs exactly nt = total_t // dt = 200 loops   *)
(* and then terminates; each loop takes one diffusion step and then adds   *)
(* one uplift; the uplift adds uplift_rate * dt to the elevation of the    *)
(* core nodes only and leaves every boundary node unchanged; the time      *)
(* simulated when the loop is left is nt * dt = total_t.                   *)
C19_DiffusionDriver ==
    /\ [](DiffusionThenUplift /\ EndsAfterTotalTime)
    /\ [][UpliftAtCoreOnly]_vars
    /\ <>(pc.at = "done")

(* The loop has been left on the 4x5 grid: 200 uplifts were added, the     *)
(* last after the last diffusion step, and only the core nodes were        *)
(* raised.                                                                 *)
C19_Witness ==
    /\ shape = <<4, 5>>
    /\ pc = [loop |-> "diffusion", at |-> "done"]
    /\ i = 199
    /\ done["uplift"] = 200
    /\ \E n \in Nodes : status_at_node[n] = CORE_NODE
    /\ \E n \in Nodes : status_at_node[n] = CLOSED_BOUNDARY
    /\ \E n \in Nodes : status_at_node[n] = FIXED_VALUE_BOUNDARY
    /\ \A n \in Nodes :
          heap[z][n] = IF status_at_node[n] = CORE_NODE
                       THEN 2 + uplift_rate * dt ELSE 0

-----------------------------------------------------------------------------
(* The driver loop of the second model *)

(* The order the steps of the loop body are to be taken in. *)
WrittenOrder ==
    <<"lin_diffuse.run_one_step", "fa.run_one_step", "fsc.run_one_step", "uplift">>

(* The statements of the loop body that have completed in loop i when      *)
(* control is at statement s: the ones written before s.                   *)
CompletedBefore(s) ==
    LET body == WrittenOrder IN
    { body[j] : j \in { k \in DOMAIN body : \E l \in DOMAIN body : k < l /\ body[l] = s } }

(* One statement at a time, in the order written: when control is at a     *)
(* statement of loop i, the statements before it have completed i + 1      *)
(* times and it and the statements after it i times; between two loops all *)
(* have completed as often as there were loops.                            *)
StrictlySequential ==
    LET body == WrittenOrder
        all == { body[j] : j \in DOMAIN body } IN
    /\ pc.at \in all \cup { "for", "done" }
    /\ pc.at \in { "for", "done" } => \A s \in all : done[s] = LoopsDone
    /\ pc.at \in all =>
          \A s \in all : done[s] = IF s \in CompletedBefore(pc.at) THEN i + 1 ELSE i

(* What a statement saw when it ran last, in loop k: the elevation as the  *)
(* statement before it that writes the elevation left it in the same loop  *)
(* (for the diffusion step: as the uplift of the loop before left it, or   *)
(* the initial elevation in the first loop), and for the erosion step the  *)
(* drainage area as the flow accumulation of the same loop left it.        *)
WritesVisibleToNext ==
    /\ done["lin_diffuse.run_one_step"] > 0 =>
          LET k == done["lin_diffuse.run_one_step"] - 1 IN
          saw["lin_diffuse.run_one_step"]["topographic__elevation"] =
              IF k = 0 THEN <<"initial", None>> ELSE <<"uplift", k - 1>>
    /\ done["fa.run_one_step"] > 0 =>
          LET k == done["fa.run_one_step"] - 1 IN
          saw["fa.run_one_step"]["topographic__elevation"] = <<"lin_diffuse.run_one_step", k>>
    /\ done["fsc.run_one_step"] > 0 =>
          LET k == done["fsc.run_one_step"] - 1 IN
          /\ saw["fsc.run_one_step"]["topographic__elevation"] = <<"lin_diffuse.run_one_step", k>>
          /\ saw["fsc.run_one_step"]["drainage_area"] = <<"fa.run_one_step", k>>
    /\ done["uplift"] > 0 =>
          LET k == done["uplift"] - 1 IN
          saw["uplift"]["topographic__elevation"] = <<"fsc.run_one_step", k>>

(* The uplift was added to the elevations the erosion step left: after the *)
(* uplift every core node stands uplift_per_step above a height a step     *)
(* leaves, and the drainage area is the one the flow accumulation left.    *)
UpliftOnErodedField ==
    pc.at \in { "for", "done" } /\ LoopsDone > 0 =>
        /\ \A n \in core_nodes :
              heap[fields[Elevation]][n] - uplift_per_step \in StepValues
        /\ \A n \in Nodes : heap[fields[DrainageArea]][n] \in AreaValues

(* C16: in the three-component driver loop the diffusion step completes    *)
(* before the flow accumulation begins, which completes before the erosion *)
(* step begins, which completes before the uplift is added; no two steps   *)
(* are in progress at once, and each step sees the fields as the step      *)
(* before it left them.                                                    *)
C16_StepsStrictlySequential ==
    /\ StrictlySequential
    /\ WritesVisibleToNext
    /\ UpliftOnErodedField

(* In the third loop on the 4x5 grid the uplift has just been added: it    *)
(* saw the elevation the erosion step of this loop wrote, the erosion step *)
(* saw the drainage area of this loop, and the next diffusion step has not *)
(* begun.                                                                  *)
C16_Witness ==
    /\ shape = <<4, 5>>
    /\ pc = [loop |-> "landscape", at |-> "for"]
    /\ i = 2
    /\ done["uplift"] = 3
    /\ done["lin_diffuse.run_one_step"] = 3
    /\ saw["uplift"]["topographic__elevation"] = <<"fsc.run_one_step", 2>>
    /\ saw["fsc.run_one_step"]["drainage_area"] = <<"fa.run_one_step", 2>>
    /\ saw["lin_diffuse.run_one_step"]["topographic__elevation"] = <<"uplift", 1>>
    /\ stamp["topographic__elevation"] = <<"uplift", 2>>
    /\ heap[fields[Elevation]][6] = 2 + uplift_per_step

-----------------------------------------------------------------------------
(* The driver loop of KinwaveImplicitOverlandFlow *)

(* The elapsed times a step is due at: 0, dt, 2*dt, ... up to the run time *)
(* in seconds.                                                             *)
StepTimes == { k * dt : k \in 0 .. (model_run_time * 3600) \div dt }

(* The k-th step of the component is taken at elapsed time (k - 1) * dt,   *)
(* which is within the run time, and the time axis of the hydrograph holds *)
(* the times of the steps taken, in hours, in their order.                 *)
OneStepPerTime ==
    pc.loop = "kinwave" /\ pc.at # "setup" =>
        /\ elapsed_time = done["elapsed_time += dt"] * dt
        /\ pc.at = "kw.run_one_step" =>
              elapsed_time \in StepTimes /\ done["kw.run_one_step"] * dt = elapsed_time
        /\ pc.at \in { "append", "elapsed_time += dt" } =>
              elapsed_time \in StepTimes /\ done["kw.run_one_step"] * dt = elapsed_time + dt
        /\ pc.at \in { "while", "done" } => done["kw.run_one_step"] * dt = elapsed_time
        /\ Len(hydrograph_time) = done["append"]
        /\ \A k \in DOMAIN hydrograph_time : hydrograph_time[k] = Hours((k - 1) * dt)

(* When the loop is left a step was taken at every due time and at no      *)
(* other: 37 steps with dt = 600 and a run of 6 hours, and elapsed_time is *)
(* 22200, the first multiple of dt above the run time.                     *)
EndsAboveRunTime ==
    pc.loop = "kinwave" /\ pc.at = "done" =>
        /\ done["kw.run_one_step"] = Cardinality(StepTimes)
        /\ done["kw.run_one_step"] = 37
        /\ { hydrograph_time[k] : k \in DOMAIN hydrograph_time } = { Hours(due) : due \in StepTimes }
        /\ elapsed_time = 22200
        /\ elapsed_time > model_run_time * 3600
        /\ elapsed_time - dt <= model_run_time * 3600

(* A step is passed the elapsed time as the current time and leaves it     *)
(* unchanged; the elapsed time changes only by dt, after the step and its  *)
(* recording.                                                              *)
AdvancesByDtAfterStep ==
    /\ done'["kw.run_one_step"] # done["kw.run_one_step"] =>
          /\ done'["kw.run_one_step"] = done["kw.run_one_step"] + 1
          /\ last'.res = <<dt, elapsed_time, runoff_rate(elapsed_time)>>
          /\ elapsed_time <= model_run_time * 3600
          /\ elapsed_time' = elapsed_time
    /\ elapsed_time' # elapsed_time =>
          /\ elapsed_time' = elapsed_time + dt
          /\ pc.at = "elapsed_time += dt"
          /\ done["elapsed_time += dt"] + 1 = done["kw.run_one_step"]

(* C20: the KinwaveImplicitOverlandFlow loop takes one component step for  *)
(* every elapsed_time 0, dt, 2*dt, ... that is at most model_run_time*3600 *)
(* and for no other value, raises elapsed_time by exactly dt after each    *)
(* step, and terminates; with dt = 600 and a run of 6 hours it takes 37    *)
(* steps and ends with elapsed_time = 22200, the first value above the run *)
(* time.                                                                   *)
C20_KinwaveLoop ==
    /\ [](OneStepPerTime /\ EndsAboveRunTime)
    /\ [][AdvancesByDtAfterStep]_vars
    /\ (pc.at = "while") ~> (pc.at = "done")

(* The loop has been left on the 4x5 raster: 37 steps, the last at 21600   *)
(* seconds (6 hours), and elapsed_time is 22200.                           *)
C20_Witness ==
    /\ shape = <<4, 5>>
    /\ pc = [loop |-> "kinwave", at |-> "done"]
    /\ dt = 600
    /\ elapsed_time = 22200
    /\ done["kw.run_one_step"] = 37
    /\ Len(hydrograph_time) = 37
    /\ hydrograph_time[1] = <<0, 3600>>
    /\ hydrograph_time[37] = <<21600, 3600>>
    /\ Len(discharge_at_outlet) = 37

-----------------------------------------------------------------------------
(* The time-slice loop of KinwaveImplicitOverlandFlow *)

(* The number of the slice being run or plotted. *)
SliceNumber == CHOOSE k \in DOMAIN t_sec : t_sec[k] = time

(* When the plot of slice t is about to be drawn the elapsed time has      *)
(* reached t*3600 and, with dt = 600, is exactly t*3600; 6 steps were run  *)
(* for each slice so far, and 36 when the loop is left.                    *)
PlotAtItsSlice ==
    pc.loop = "kinwave slices" =>
        /\ pc.at = "plot" =>
              /\ time = (done["plot"] + 1) * 3600
              /\ elapsed_time >= time
              /\ dt = 600 => elapsed_time = time
              /\ done["kw.run_one_step"] = 6 * SliceNumber
              /\ done["plot"] = SliceNumber - 1
        /\ pc.at = "done" =>
              /\ done["plot"] = 6
              /\ done["kw.run_one_step"] = 36
              /\ elapsed_time = 21600

(* elapsed_time is set to 0 on the way into the loop and inside the loop   *)
(* it only grows, by dt after a step.                                      *)
ResetOnceBeforeSlices ==
    /\ pc.loop # "kinwave slices" /\ pc'.loop = "kinwave slices" => elapsed_time' = 0
    /\ pc.loop = "kinwave slices" =>
          /\ pc'.loop = "kinwave slices"
          /\ elapsed_time' # elapsed_time =>
                 elapsed_time' = elapsed_time + dt /\ pc.at = "elapsed_time += dt"

(* C22: in the time-slice loop of KinwaveImplicitOverlandFlow elapsed_time *)
(* is reset to 0 once, before the outer loop, and never inside it; when    *)
(* the plot of slice t (1 to 6 hours) is drawn elapsed_time >= t*3600 and, *)
(* with dt = 600, equals t*3600, so 6 steps are run between consecutive    *)
(* plots and 36 in all.                                                    *)
C22_SlicesPlottedOnTime ==
    /\ []PlotAtItsSlice
    /\ [][ResetOnceBeforeSlices]_vars

(* The plot of the third slice is about to be drawn on the 4x5 raster:     *)
(* elapsed_time is 10800 and 18 steps were run since the reset.            *)
C22_Witness ==
    /\ shape = <<4, 5>>
    /\ pc = [loop |-> "kinwave slices", at |-> "plot"]
    /\ time = 10800
    /\ elapsed_time = 10800
    /\ done["kw.run_one_step"] = 18
    /\ done["plot"] = 2
    /\ Len(hydrograph_time) = 37

-----------------------------------------------------------------------------
(* The driver loop of OverlandFlow *)

(* The order the statements of the loop body are to be taken in. *)
AdaptiveOrder ==
    <<"of.calc_time_step", "of.rainfall_intensity", "of.overland_flow",
      "discharge_mapper", "append", "elapsed_time += of.delta_t">>

(* In every loop the time step is computed, then the rainfall intensity is *)
(* set, then the flow step is run, then the discharge at the outlet is     *)
(* mapped and recorded, then the elapsed time is advanced: when control is *)
(* at a statement, the statements before it have completed once more than  *)
(* it and the statements after it.                                         *)
AdaptiveStepsInOrder ==
    LET loops == done["elapsed_time += of.delta_t"]
        at == { k \in DOMAIN AdaptiveOrder : AdaptiveOrder[k] = pc.at } IN
    pc.loop = "overland" /\ pc.at # "setup" =>
        /\ pc.at \in { "while", "done" } \/ at # {}
        /\ \A k \in DOMAIN AdaptiveOrder :
              done[AdaptiveOrder[k]] = IF \E j \in at : k < j THEN loops + 1 ELSE loops
        /\ Len(hydrograph_time) = done["append"]

(* The loop is left only above the run time: never as long as every time   *)
(* step computed was 0.                                                    *)
LeftOnlyAfterAdvance ==
    pc.loop = "overland" /\ pc.at = "done" =>
        /\ elapsed_time > model_run_time * 3600
        /\ \E k \in DOMAIN hydrograph_time : hydrograph_time[k] # Hours(0)

(* of.delta_t is assigned only where the time step is computed, the        *)
(* elapsed time changes only where of.delta_t is added to it, and it never *)
(* decreases.                                                              *)
SameDeltaAdded ==
    pc.loop = "overland" /\ pc.at # "setup" =>
        /\ of_delta_t' # of_delta_t => pc.at = "of.calc_time_step" /\ of_delta_t' \in DeltaTs
        /\ elapsed_time' # elapsed_time => pc.at = "elapsed_time += of.delta_t"
        /\ pc.at = "elapsed_time += of.delta_t" /\ pc'.at # pc.at =>
              elapsed_time' = elapsed_time + of_delta_t
        /\ elapsed_time' >= elapsed_time

(* C23: every loop of the adaptive OverlandFlow driver computes delta_t,   *)
(* sets the rainfall intensity, runs the flow step, records the outlet     *)
(* discharge and adds that same delta_t to elapsed_time, in this order;    *)
(* elapsed_time never decreases; the loop is left if every delta_t         *)
(* computed is at least a positive lower bound, and is not left while      *)
(* every delta_t is 0.                                                     *)
C23_AdaptiveLoop ==
    /\ [](AdaptiveStepsInOrder /\ LeftOnlyAfterAdvance)
    /\ [][SameDeltaAdded]_vars
    /\ (pc.at = "while" /\ done["of.calc_time_step"] = 0)
           ~> (pc.at = "done" \/ of_delta_t = 0)

(* The loop has been left on the 4x5 raster after the steps 7200, 10800    *)
(* and 7200: the times recorded are 0, 7200 and 18000 seconds and          *)
(* elapsed_time is 25200.                                                  *)
C23_Witness ==
    /\ shape = <<4, 5>>
    /\ pc = [loop |-> "overland", at |-> "done"]
    /\ hydrograph_time = <<Hours(0), Hours(7200), Hours(18000)>>
    /\ of_delta_t = 7200
    /\ elapsed_time = 25200
    /\ done["of.overland_flow"] = 3

-----------------------------------------------------------------------------
(* The hydrograph lists of the OverlandFlow run *)

(* The time a comes before the time b, both fractions of an hour. *)
Earlier(a, b) == a[1] * b[2] < b[1] * a[2]

OverlandLoops == { "overland", "overland slices" }

(* C24: from the reset of hydrograph_time and discharge_at_outlet before   *)
(* the OverlandFlow run to the end of the notebook the two lists have the  *)
(* same length after every loop of a body, and the times appended to       *)
(* hydrograph_time are strictly increasing: one series ordered in time.    *)
C24_OneTimeOrderedSeries ==
    pc.loop \in OverlandLoops =>
        /\ pc.at \in { "while", "for", "plot", "done" } =>
              Len(hydrograph_time) = Len(discharge_at_outlet)
        /\ \A j, k \in DOMAIN hydrograph_time :
              j < k => Earlier(hydrograph_time[j], hydrograph_time[k])

-----------------------------------------------------------------------------
(* The rainfall of the overland flow loops *)

(* The storm intensity, rainfall_intensity*2.77778e-7, in units of 1e-12   *)
(* metres a second.                                                        *)
StormIntensity == rainfall_intensity * 277778

=============================================================================
